---- MODULE Spec2Model ----
(***************************************************************************)
(* A model of the CSV handling and of the summary rendering of the         *)
(* govbeacon-prompts viewers:                                              *)
(*   - GovBeaconCompare._parseCsv / DocumentSummaryViewer._parseCsv        *)
(*     (src/viewer/compare/app.js, src/viewer/docs/app.js), the lenient    *)
(*     streaming parser;                                                    *)
(*   - CSVComparisonViewer.parseCSV (src/app.js), the validating parser;   *)
(*   - DocumentSummaryViewer._groupByOpportunity;                          *)
(*   - the compare viewer's load / merge state machine;                    *)
(*   - GovBeaconCompare._parseMarkdown, the markdown renderer of a cell;   *)
(*   - DocumentSummaryViewer._extractSummaryText                           *)
(*     (src/outputs/cost_report.md), the JSON envelope unwrapper.          *)
(*                                                                         *)
(* A JavaScript string is a sequence of one-character strings, so that    *)
(* scanning, trimming and quoting are computed character by character.     *)
(* A Record (a JS object keyed by column name) is a function from the set  *)
(* of its keys to cell values.  An optional value (x ?? null) is the       *)
(* sequence <<>> for null and <<x>> for x.                                 *)
(***************************************************************************)
EXTENDS Integers, Sequences, FiniteSets, TLC

VARIABLES
    \* a file handed to the parsers
    input,          \* the file: [kind, meta], its text InputText(input)
    table,          \* what _parseCsv made of it: NotParsed, or <<[headers, rows]>>
    crlfTable,      \* _parseCsv of the same text with \n terminators written as \r\n
    rootResult,     \* what CSVComparisonViewer.parseCSV did with it
    blankTable,     \* _parseCsv of a generated table with an empty line put in: [at, table]
    \* DocumentSummaryViewer
    documentsByOpportunity,   \* Map: sam-url -> documents
    currentOpportunity,       \* null (<<>>) or <<sam-url>>
    filteredDocuments,
    opportunityOptions,       \* the option values of opportunitySelect, in order
    docFile,                  \* history: <<the file whose rows were last grouped>>
    docSearchValue,           \* searchInput.value of the document viewer
    \* GovBeaconCompare
    baseRows,
    summaryRows,
    summaryMap,               \* Map: sam-url -> summary row
    mergedRows,
    filteredRows,
    searchValue,              \* searchInput.value
    autoPending,              \* the constructor's fetch of input.csv is in flight
    loaded,                   \* history: which of "base", "summary" a read has set
    baseRead,                 \* the read of a user-selected base file: null, or
                              \* <<[file, whileAuto, state, last]>>
    \* the summary cell of a viewer: _setContent / _extractSummaryText
    mdInput,                  \* the markdown text handed to _parseMarkdown, as [kind, meta]
    rendered,                 \* not rendered (<<>>) or <<the html _parseMarkdown returned>>
    summaryInput,             \* the summary text handed to _extractSummaryText
    unwrapped,                \* not called (<<>>) or <<what _extractSummaryText returned>>
    summaryHtml,              \* not set (<<>>) or <<what _parseMarkdown made of it, or threw>>
    \* CSVComparisonViewer (src/app.js)
    rootData,                 \* this.data
    currentRowIndex,
    rowOptions,               \* the <option>s of rowSelect: [value, textContent]
    rowSelectValue,           \* rowSelect.value
    columnContent,            \* the three columns: [content, href, link]
    mainDisplay,              \* mainContent.style.display and rowSelectorDropdown's
    errorMessage,             \* errorMessage.textContent
    errorDisplay,             \* errorMessage.style.display
    pendingReads              \* reads of readFile(file) that have not completed

csvVars == <<input, table, crlfTable, rootResult, blankTable>>
docsVars ==
    <<documentsByOpportunity, currentOpportunity, filteredDocuments, opportunityOptions,
      docFile, docSearchValue>>
compareVars ==
    <<baseRows, summaryRows, summaryMap, mergedRows, filteredRows, searchValue,
      autoPending, loaded, baseRead>>

renderVars == <<mdInput, rendered>>
unwrapVars == <<summaryInput, unwrapped, summaryHtml>>
rootVars ==
    <<rootData, currentRowIndex, rowOptions, rowSelectValue, columnContent, mainDisplay,
      errorMessage, errorDisplay, pendingReads>>

vars == <<csvVars, docsVars, compareVars, renderVars, unwrapVars, rootVars>>

----------------------------------------------------------------------------
(* Characters and strings *)

QUOTE == "\""
COMMA == ","
LF    == "\n"
CR    == "\r"
SP    == " "

\* text[i + 1] past the end of a JS string
Undefined == "undefined"

\* the characters String.prototype.trim strips, among those the model uses
WhiteSpace == {SP, LF, CR, "\t"}

Range(s) == {s[i] : i \in DOMAIN s}

RECURSIVE TrimLeft(_)
TrimLeft(s) ==
    IF s # <<>> /\ Head(s) \in WhiteSpace THEN TrimLeft(Tail(s)) ELSE s

RECURSIVE TrimRight(_)
TrimRight(s) ==
    IF s # <<>> /\ s[Len(s)] \in WhiteSpace
    THEN TrimRight(SubSeq(s, 1, Len(s) - 1))
    ELSE s

\* String.prototype.trim
trim(s) == TrimRight(TrimLeft(s))

\* the concatenation of a sequence of sequences (by halves, which keeps the
\* evaluation shallow for long sequences)
RECURSIVE Flatten(_)
Flatten(ss) ==
    IF ss = <<>> THEN <<>>
    ELSE IF Len(ss) = 1 THEN ss[1]
    ELSE LET half == Len(ss) \div 2
         IN  Flatten(SubSeq(ss, 1, half)) \o Flatten(SubSeq(ss, half + 1, Len(ss)))

----------------------------------------------------------------------------
(* GovBeaconCompare._parseCsv, DocumentSummaryViewer._parseCsv *)

\* row[header] = value on a JS object
SetKey(row, header, value) ==
    [k \in (DOMAIN row) \cup {header} |-> IF k = header THEN value ELSE row[k]]

\* FillRow as it would be if columns with an empty name were skipped
RECURSIVE FillRowSkippingUnnamed(_, _, _, _)
FillRowSkippingUnnamed(row, headers, currentRow, index) ==
    IF index > Len(headers) THEN row
    ELSE FillRowSkippingUnnamed(
             IF headers[index] = <<>> THEN row
             ELSE SetKey(row, headers[index],
                         IF index <= Len(currentRow) THEN currentRow[index] ELSE <<>>),
             headers, currentRow, index + 1)

\* headers.forEach((header, index) => { row[header] = currentRow[index] ?? ''; })
RECURSIVE FillRow(_, _, _, _)
FillRow(row, headers, currentRow, index) ==
    IF index > Len(headers) THEN row
    ELSE FillRow(SetKey(row, headers[index],
                        IF index <= Len(currentRow) THEN currentRow[index] ELSE <<>>),
                 headers, currentRow, index + 1)

\* the scanner's locals before the first character; i is the loop's index, from 1
ScanStart ==
    [rows |-> <<>>, headers |-> <<>>, currentField |-> <<>>, currentRow |-> <<>>,
     inQuotes |-> FALSE, i |-> 1]

pushField(s) ==
    [s EXCEPT !.currentRow = Append(@, trim(s.currentField)),
              !.currentField = <<>>]

\* pushRow as it would be without the currentRow.length === headers.length test
pushRowAnyWidth(s) ==
    IF s.currentRow = <<>> THEN s
    ELSE IF s.headers = <<>>
    THEN [s EXCEPT !.headers = s.currentRow, !.currentRow = <<>>]
    ELSE [s EXCEPT !.rows = Append(@, FillRow(<<>>, s.headers, s.currentRow, 1)),
                   !.currentRow = <<>>]

pushRow(s) ==
    IF s.currentRow = <<>> THEN s
    ELSE IF s.headers = <<>>
    THEN [s EXCEPT !.headers = s.currentRow, !.currentRow = <<>>]
    ELSE IF Len(s.currentRow) = Len(s.headers)
    THEN [s EXCEPT !.rows = Append(@, FillRow(<<>>, s.headers, s.currentRow, 1)),
                   !.currentRow = <<>>]
    ELSE [s EXCEPT !.currentRow = <<>>]

\* ScanStep as it would be if "" inside quotes were not an escaped quote
ScanStepNoEscape(text, s) ==
    IF s.i > Len(text) THEN s
    ELSE LET char == text[s.i]
         IN  IF char = QUOTE
             THEN [s EXCEPT !.inQuotes = ~@, !.i = @ + 1]
             ELSE IF char = COMMA /\ ~s.inQuotes
             THEN [pushField(s) EXCEPT !.i = @ + 1]
             ELSE IF char \in {LF, CR} /\ ~s.inQuotes
             THEN [pushRow(pushField(s)) EXCEPT
                       !.i = IF char = CR /\ s.i + 1 <= Len(text) /\ text[s.i + 1] = LF
                             THEN @ + 2 ELSE @ + 1]
             ELSE [s EXCEPT !.currentField = Append(@, char), !.i = @ + 1]

\* ScanStep as it would be if \r and \n each ended a row, \r\n ending two
ScanStepCrAndLf(text, s) ==
    IF s.i > Len(text) THEN s
    ELSE LET char == text[s.i]
             next == IF s.i + 1 <= Len(text) THEN text[s.i + 1] ELSE Undefined
         IN  IF char = QUOTE
             THEN IF s.inQuotes /\ next = QUOTE
                  THEN [s EXCEPT !.currentField = Append(@, QUOTE), !.i = @ + 2]
                  ELSE [s EXCEPT !.inQuotes = ~@, !.i = @ + 1]
             ELSE IF char = COMMA /\ ~s.inQuotes
             THEN [pushField(s) EXCEPT !.i = @ + 1]
             ELSE IF char \in {LF, CR} /\ ~s.inQuotes
             THEN [pushRow(pushField(s)) EXCEPT !.i = @ + 1]
             ELSE [s EXCEPT !.currentField = Append(@, char), !.i = @ + 1]

\* one pass of the for loop's body, with its i += 1; nothing once i is past the end
ScanStep(text, s) ==
    IF s.i > Len(text) THEN s
    ELSE LET char == text[s.i]
             next == IF s.i + 1 <= Len(text) THEN text[s.i + 1] ELSE Undefined
         IN  IF char = QUOTE
             THEN IF s.inQuotes /\ next = QUOTE
                  THEN [s EXCEPT !.currentField = Append(@, QUOTE), !.i = @ + 2]
                  ELSE [s EXCEPT !.inQuotes = ~@, !.i = @ + 1]
             ELSE IF char = COMMA /\ ~s.inQuotes
             THEN [pushField(s) EXCEPT !.i = @ + 1]
             ELSE IF char \in {LF, CR} /\ ~s.inQuotes
             THEN [pushRow(pushField(s)) EXCEPT
                       !.i = IF char = CR /\ next = LF THEN @ + 2 ELSE @ + 1]
             ELSE [s EXCEPT !.currentField = Append(@, char), !.i = @ + 1]

\* n passes of the loop body (the loop runs at most text.length of them)
RECURSIVE ScanLoop(_, _, _)
ScanLoop(text, n, s) ==
    IF n = 0 THEN s
    ELSE IF n = 1 THEN ScanStep(text, s)
    ELSE LET half == ScanLoop(text, n \div 2, s)
         IN  IF half.i > Len(text) THEN half
             ELSE ScanLoop(text, n - (n \div 2), half)

\* the flush after the loop: if (currentField || currentRow.length)
FlushLast(s) ==
    IF s.currentField # <<>> \/ s.currentRow # <<>> THEN pushRow(pushField(s)) ELSE s

\* the scanner's locals when _parseCsv returns
parseCsvState(text) == FlushLast(ScanLoop(text, Len(text), ScanStart))

\* _parseCsv(text): the rows it returns
parseCsv(text) == parseCsvState(text).rows

\* the header _parseCsv took and the rows it returns
parseCsvTable(text) ==
    LET s == parseCsvState(text) IN [headers |-> s.headers, rows |-> s.rows]

----------------------------------------------------------------------------
(* CSVComparisonViewer.parseCSV (src/app.js) *)

SamDescription   == <<"s", "a", "m", "-", "d", "e", "s", "c", "r", "i", "p", "t", "i", "o", "n">>
SamUrl           == <<"s", "a", "m", "-", "u", "r", "l">>
SweetspotSummary == <<"s", "w", "e", "e", "t", "s", "p", "o", "t", "-", "s", "u", "m", "m", "a", "r", "y">>
SweetspotUrl     == <<"s", "w", "e", "e", "t", "s", "p", "o", "t", "-", "u", "r", "l">>
HighergovSummary == <<"h", "i", "g", "h", "e", "r", "g", "o", "v", "-", "s", "u", "m", "m", "a", "r", "y">>
HighergovUrl     == <<"h", "i", "g", "h", "e", "r", "g", "o", "v", "-", "u", "r", "l">>

requiredHeaders ==
    <<SamDescription, SamUrl, SweetspotSummary, SweetspotUrl, HighergovSummary,
      HighergovUrl>>

\* currentRow.some(field => field)
SomeField(currentRow) == \E i \in DOMAIN currentRow : currentRow[i] # <<>>

RootStart ==
    [rows |-> <<>>, currentRow |-> <<>>, currentField |-> <<>>, inQuotes |-> FALSE,
     i |-> 1]

\* currentRow.push(currentField.trim()); rows.push(currentRow) unless every field is empty
RootEndRow(s) ==
    IF s.currentField # <<>> \/ s.currentRow # <<>>
    THEN LET row == Append(s.currentRow, trim(s.currentField))
         IN  [s EXCEPT !.rows = IF SomeField(row) THEN Append(@, row) ELSE @,
                       !.currentRow = <<>>,
                       !.currentField = <<>>]
    ELSE s

\* one pass of the for loop's body, with its i++; nothing once i is past the end
RootScanStep(text, s) ==
    IF s.i > Len(text) THEN s
    ELSE LET char == text[s.i]
             nextChar == IF s.i + 1 <= Len(text) THEN text[s.i + 1] ELSE Undefined
         IN  IF char = QUOTE
             THEN IF s.inQuotes /\ nextChar = QUOTE
                  THEN [s EXCEPT !.currentField = Append(@, QUOTE), !.i = @ + 2]
                  ELSE [s EXCEPT !.inQuotes = ~@, !.i = @ + 1]
             ELSE IF char = COMMA /\ ~s.inQuotes
             THEN [s EXCEPT !.currentRow = Append(@, trim(s.currentField)),
                            !.currentField = <<>>,
                            !.i = @ + 1]
             ELSE IF char \in {LF, CR} /\ ~s.inQuotes
             THEN [RootEndRow(s) EXCEPT
                       !.i = IF char = CR /\ nextChar = LF THEN @ + 2 ELSE @ + 1]
             ELSE [s EXCEPT !.currentField = Append(@, char), !.i = @ + 1]

RECURSIVE RootScanLoop(_, _, _)
RootScanLoop(text, n, s) ==
    IF n = 0 THEN s
    ELSE IF n = 1 THEN RootScanStep(text, s)
    ELSE LET half == RootScanLoop(text, n \div 2, s)
         IN  IF half.i > Len(text) THEN half
             ELSE RootScanLoop(text, n - (n \div 2), half)

\* rows after the loop and the final "Add last field and row if exists"
RootRows(text) == RootEndRow(RootScanLoop(text, Len(text), RootStart)).rows

\* headers.forEach((header, index) => { row[header] = values[index] || ''; })
RECURSIVE RootFillRow(_, _, _, _)
RootFillRow(row, headers, values, index) ==
    IF index > Len(headers) THEN row
    ELSE RootFillRow(SetKey(row, headers[index],
                            IF index <= Len(values) THEN values[index] ELSE <<>>),
                     headers, values, index + 1)

\* for (let i = 1; i < rows.length; i++) ... data.push(row)
RECURSIVE RootData(_, _, _)
RootData(rows, i, data) ==
    IF i > Len(rows) THEN data
    ELSE RootData(rows, i + 1,
                  IF Len(rows[i]) = Len(rows[1])
                  THEN Append(data, RootFillRow(<<>>, rows[1], rows[i], 1))
                  ELSE data)

Thrown(message) ==
    [threw |-> TRUE, message |-> message, headers |-> <<>>, data |-> <<>>]

\* parseCSV(text): the Error it throws, or the data it returns
parseCSV(text) ==
    LET rows == RootRows(text)
    IN  IF Len(rows) < 2 THEN Thrown("CSV file must contain at least a header and one data row")
        ELSE IF \E h \in Range(requiredHeaders) : h \notin Range(rows[1])
        THEN Thrown("Missing required columns")
        ELSE [threw |-> FALSE, message |-> "", headers |-> rows[1],
              data |-> RootData(rows, 2, <<>>)]

----------------------------------------------------------------------------
(* The inputs of the parsers: file contents *)

\* the longest arbitrary text
MaxTextLen == 5
\* the longest value written as a quoted field of a one-column table
MaxValLen == 4
\* the longest value written as a quoted field of a six-column table
MaxWideValLen == 3
\* the widest header of a generated table
MaxCols == 2
\* the most data rows of a generated table
MaxGridRows == 2
\* the most data rows of a generated table with the root viewer's header
MaxRootRows == 2

\* the characters arbitrary texts and quoted values are made of
Chars == {"a", SP, COMMA, LF, CR, QUOTE}

SeqsUpTo(S, n) == UNION {[1..k -> S] : k \in 0..n}

\* v written as a quoted field, every " doubled
RECURSIVE DoubleQuotes(_)
DoubleQuotes(v) ==
    IF v = <<>> THEN <<>>
    ELSE (IF Head(v) = QUOTE THEN <<QUOTE, QUOTE>> ELSE <<Head(v)>>)
         \o DoubleQuotes(Tail(v))

Quoted(v) == <<QUOTE>> \o DoubleQuotes(v) \o <<QUOTE>>

\* the ways a generated cell is written, each with the value it stands for
RawEmpty    == [txt |-> <<>>, val |-> <<>>]
QuotedEmpty == [txt |-> Quoted(<<>>), val |-> <<>>]
Plain       == [txt |-> <<"a">>, val |-> <<"a">>]
CellForms   == {RawEmpty, QuotedEmpty, Plain}

\* the pieces joined by sep
RECURSIVE Join(_, _)
Join(pieces, sep) ==
    IF pieces = <<>> THEN <<>>
    ELSE IF Len(pieces) = 1 THEN pieces[1]
    ELSE pieces[1] \o sep \o Join(Tail(pieces), sep)

\* the lines joined by the terminator eol, with or without a last terminator
FileText(lines, eol, trailing) ==
    Join(lines, eol) \o (IF trailing /\ lines # <<>> THEN eol ELSE <<>>)

\* a line of width cells, all written the same way
UniformLine(width, cell) == Join([i \in 1..width |-> cell.txt], <<COMMA>>)

ColNames == << <<"h">>, <<"i">>, <<"j">>, <<"k">>, <<"l">> >>

Eols == {<<LF>>, <<CR, LF>>}

\* arbitrary texts
TextInputs == [kind : {"text"}, meta : SeqsUpTo(Chars, MaxTextLen)]

\* a one-column or a six-column table whose data row holds the quoted value v
QuotedLine(m) ==
    IF m.wide
    THEN Join([i \in 1..Len(requiredHeaders) |->
                   IF i = m.pos THEN Quoted(m.v) ELSE Plain.txt], <<COMMA>>)
    ELSE Quoted(m.v)

QuotedHeader(m) == IF m.wide THEN requiredHeaders ELSE <<ColNames[1]>>

QuotedColumn(m) == IF m.wide THEN requiredHeaders[m.pos] ELSE ColNames[1]

QuotedMetas ==
    {[v |-> v, wide |-> FALSE, pos |-> 1, trailing |-> t] :
        v \in SeqsUpTo(Chars, MaxValLen) \ {<<>>}, t \in BOOLEAN}
    \cup
    {[v |-> v, wide |-> TRUE, pos |-> p, trailing |-> t] :
        v \in SeqsUpTo(Chars, MaxWideValLen) \ {<<>>},
        p \in {1, Len(requiredHeaders)}, t \in BOOLEAN}

QuotedText(m) ==
    FileText(<<Join(QuotedHeader(m), <<COMMA>>), QuotedLine(m)>>, <<LF>>, m.trailing)

QuotedInputs == [kind : {"quoted"}, meta : QuotedMetas]

\* a table of n columns whose data rows are lines of n - 1, n or n + 1 cells
GridRowSpecs(n) ==
    {[width |-> w, cell |-> c] : w \in {n - 1, n, n + 1} \ {0}, c \in CellForms}

\* a last line with nothing on it is no line: the text is that of one row fewer
GridRepresentable(m) ==
    \/ m.rows = <<>>
    \/ m.trailing
    \/ LET last == m.rows[Len(m.rows)] IN ~(last.width = 1 /\ last.cell = RawEmpty)

GridMetas ==
    {m \in UNION {[n : {n}, rows : SeqsUpTo(GridRowSpecs(n), MaxGridRows),
                   eol : Eols, trailing : BOOLEAN] : n \in 1..MaxCols} :
        GridRepresentable(m)}

GridText(m) ==
    FileText(<<Join(SubSeq(ColNames, 1, m.n), <<COMMA>>)>>
                 \o [i \in DOMAIN m.rows |-> UniformLine(m.rows[i].width, m.rows[i].cell)],
             m.eol, m.trailing)

GridInputs == [kind : {"grid"}, meta : GridMetas]

\* tables for the root viewer: the required header, with a column added or missing
RootHeaders ==
    {requiredHeaders,
     Append(requiredHeaders, SamUrl),
     Append(requiredHeaders, <<>>),
     SubSeq(requiredHeaders, 1, Len(requiredHeaders) - 1)}

RootRowSpecs(h) ==
    {[width |-> w, cell |-> c] : w \in {Len(h) - 1, Len(h)}, c \in CellForms}

RootMetas ==
    UNION {[header : {h}, rows : SeqsUpTo(RootRowSpecs(h), MaxRootRows),
            trailing : BOOLEAN] : h \in RootHeaders}

RootText(m) ==
    FileText(<<Join(m.header, <<COMMA>>)>>
                 \o [i \in DOMAIN m.rows |-> UniformLine(m.rows[i].width, m.rows[i].cell)],
             <<LF>>, m.trailing)

RootInputs == [kind : {"root"}, meta : RootMetas]

\* the characters of the file an input describes
InputText(in) ==
    CASE in.kind = "text" -> in.meta
      [] in.kind = "quoted" -> QuotedText(in.meta)
      [] in.kind = "grid" -> GridText(in.meta)
      [] in.kind = "root" -> RootText(in.meta)

\* the text with every \n that ends a row on its own written as \r\n: a scan that
\* follows the quotes as the parsers do and copies the text to out
CrLfStep(text, s) ==
    IF s.i > Len(text) THEN s
    ELSE LET char == text[s.i]
             next == IF s.i + 1 <= Len(text) THEN text[s.i + 1] ELSE Undefined
         IN  IF char = QUOTE
             THEN IF s.inQuotes /\ next = QUOTE
                  THEN [s EXCEPT !.out = @ \o <<QUOTE, QUOTE>>, !.i = @ + 2]
                  ELSE [s EXCEPT !.out = Append(@, QUOTE), !.inQuotes = ~@, !.i = @ + 1]
             ELSE IF char = LF /\ ~s.inQuotes /\ ~(s.i > 1 /\ text[s.i - 1] = CR)
             THEN [s EXCEPT !.out = @ \o <<CR, LF>>, !.i = @ + 1]
             ELSE [s EXCEPT !.out = Append(@, char), !.i = @ + 1]

RECURSIVE CrLfLoop(_, _, _)
CrLfLoop(text, n, s) ==
    IF n = 0 THEN s
    ELSE IF n = 1 THEN CrLfStep(text, s)
    ELSE LET half == CrLfLoop(text, n \div 2, s)
         IN  IF half.i > Len(text) THEN half
             ELSE CrLfLoop(text, n - (n \div 2), half)

ToCrLf(text) == CrLfLoop(text, Len(text), [out |-> <<>>, inQuotes |-> FALSE, i |-> 1]).out

----------------------------------------------------------------------------
(* The parsers applied to a file *)

NotParsed == <<>>

\* null, and a value that is not null
Null == <<>>
Some(x) == <<x>>

\* new Map()
EmptyMap == <<>>

\* no file handed to the parsers
CsvIdle ==
    /\ input = [kind |-> "text", meta |-> <<>>]
    /\ table = NotParsed
    /\ crlfTable = NotParsed
    /\ rootResult = NotParsed
    /\ blankTable = NotParsed

\* new DocumentSummaryViewer()
DocsConstructed ==
    /\ documentsByOpportunity = EmptyMap
    /\ currentOpportunity = Null
    /\ filteredDocuments = <<>>
    /\ opportunityOptions = <<>>
    /\ docFile = Null
    /\ docSearchValue = <<>>

\* new GovBeaconCompare(): the constructor ends by starting the fetch of input.csv
CompareConstructed ==
    /\ baseRows = <<>>
    /\ summaryRows = <<>>
    /\ summaryMap = EmptyMap
    /\ mergedRows = <<>>
    /\ filteredRows = <<>>
    /\ searchValue = <<>>
    /\ autoPending = TRUE
    /\ loaded = {}
    /\ baseRead = Null

\* no cell content set: nothing handed to _parseMarkdown
RenderIdle ==
    /\ mdInput = [kind |-> "chars", meta |-> <<>>]
    /\ rendered = NotParsed

\* no summary handed to _extractSummaryText
UnwrapIdle ==
    /\ summaryInput = [kind |-> "plain", meta |-> <<>>]
    /\ unwrapped = NotParsed
    /\ summaryHtml = NotParsed

\* new CSVComparisonViewer(): nothing loaded, nothing rendered into the page yet
RootConstructed ==
    /\ rootData = <<>>
    /\ currentRowIndex = 0
    /\ rowOptions = <<>>
    /\ rowSelectValue = <<>>
    /\ columnContent = <<>>
    /\ mainDisplay = "none"
    /\ errorMessage = ""
    /\ errorDisplay = "none"
    /\ pendingReads = 0

CsvInit ==
    /\ \/ input \in TextInputs
       \/ input \in QuotedInputs
       \/ input \in GridInputs
       \/ input \in RootInputs
    /\ table = NotParsed
    /\ crlfTable = NotParsed
    /\ rootResult = NotParsed
    /\ blankTable = NotParsed
    /\ DocsConstructed
    /\ CompareConstructed
    /\ RenderIdle
    /\ UnwrapIdle
    /\ RootConstructed

\* The three reads of one file are independent of each other; they are taken
\* in turn so that each parse is one step of the run.

\* a viewer reads the file: this._parseCsv(text)
ParseViewer ==
    /\ table = NotParsed
    /\ table' = <<parseCsvTable(InputText(input))>>
    /\ UNCHANGED <<input, crlfTable, rootResult, blankTable, docsVars, compareVars, renderVars, unwrapVars, rootVars>>

\* a viewer reads the same file saved with \r\n line ends
ParseViewerCrLf ==
    /\ table # NotParsed
    /\ crlfTable = NotParsed
    /\ crlfTable' = <<parseCsvTable(ToCrLf(InputText(input)))>>
    /\ UNCHANGED <<input, table, rootResult, blankTable, docsVars, compareVars, renderVars, unwrapVars, rootVars>>

\* the root viewer reads the file: this.parseCSV(text)
ParseRoot ==
    /\ crlfTable # NotParsed
    /\ rootResult = NotParsed
    /\ rootResult' = <<parseCSV(InputText(input))>>
    /\ UNCHANGED <<input, table, crlfTable, blankTable, docsVars, compareVars, renderVars, unwrapVars, rootVars>>

\* the lines of a generated table, the header first
GridLines(m) ==
    <<Join(SubSeq(ColNames, 1, m.n), <<COMMA>>)>>
        \o [i \in DOMAIN m.rows |-> UniformLine(m.rows[i].width, m.rows[i].cell)]

\* the text of the table with an empty line put in before line at, or after the
\* last line (at = the number of lines + 1), every line before it terminated
BlankLineText(m, at) ==
    LET lines == GridLines(m)
    IN  IF at <= Len(lines)
        THEN FileText(SubSeq(lines, 1, at - 1) \o <<<<>>>> \o SubSeq(lines, at, Len(lines)),
                      m.eol, m.trailing)
        ELSE FileText(lines, m.eol, TRUE) \o m.eol

\* a viewer reads a generated table into which an empty line was put
ParseViewerBlank ==
    /\ input.kind = "grid"
    /\ rootResult # NotParsed
    /\ blankTable = NotParsed
    /\ \E at \in 1..(Len(input.meta.rows) + 2) :
           blankTable' = <<[at |-> at,
                            table |-> parseCsvTable(BlankLineText(input.meta, at))]>>
    /\ UNCHANGED <<input, table, crlfTable, rootResult, docsVars, compareVars, renderVars,
                   unwrapVars, rootVars>>

CsvNext == ParseViewer \/ ParseViewerCrLf \/ ParseRoot \/ ParseViewerBlank

SpecCsv == CsvInit /\ [][CsvNext]_vars

----------------------------------------------------------------------------
(* Claims about the parsers *)

\* the table a viewer built from the file, once it has
Rows == table[1].rows
Headers == table[1].headers

\* the Records a generated table stands for: one per line of exactly n cells
RECURSIVE ExpectedRecordsFrom(_, _)
ExpectedRecordsFrom(m, i) ==
    IF i > Len(m.rows) THEN <<>>
    ELSE (IF m.rows[i].width = m.n
          THEN <<[h \in Range(SubSeq(ColNames, 1, m.n)) |-> m.rows[i].cell.val]>>
          ELSE <<>>)
         \o ExpectedRecordsFrom(m, i + 1)

ExpectedRecords(m) == ExpectedRecordsFrom(m, 1)

\* C1: a value v written as a quoted field with every " doubled parses back to a
\* Record whose cell is trim(v), in both parsers: v alone on its line under a
\* one-column header, and v first or last among the six columns of the root viewer.
C1_RoundTripQuoting ==
    input.kind = "quoted" =>
        /\ table # NotParsed =>
               /\ Len(Rows) = 1
               /\ Rows[1][QuotedColumn(input.meta)] = trim(input.meta.v)
        /\ (rootResult # NotParsed /\ input.meta.wide) =>
               /\ ~rootResult[1].threw
               /\ Len(rootResult[1].data) = 1
               /\ rootResult[1].data[1][QuotedColumn(input.meta)] = trim(input.meta.v)

\* C1 witness: a six-column file whose quoted value holds a comma, a newline and a
\* quote has been read by both parsers.
C1_Witness ==
    /\ input.kind = "quoted"
    /\ input.meta.wide
    /\ {COMMA, LF, QUOTE} \subseteq Range(trim(input.meta.v))
    /\ table # NotParsed
    /\ rootResult # NotParsed
    /\ Rows[1][QuotedColumn(input.meta)] = trim(input.meta.v)

\* C2: a table of N header columns yields exactly one Record per data row of
\* exactly N fields, whatever the fields hold and however the text ends.
C2_RowCountInvariant ==
    (input.kind = "grid" /\ table # NotParsed) =>
        Len(Rows) = Len(ExpectedRecords(input.meta))

\* the one shape of table C2 fails on: one column, the last line a quoted empty
\* field, no line terminator after it
C2_LastQuotedEmpty ==
    /\ input.kind = "grid"
    /\ input.meta.n = 1
    /\ ~input.meta.trailing
    /\ input.meta.rows # <<>>
    /\ input.meta.rows[Len(input.meta.rows)] = [width |-> 1, cell |-> QuotedEmpty]

\* what the code does on generated tables: the rows are the expected Records,
\* but for the last one in the C2_LastQuotedEmpty shape
C2_RowCountButLast ==
    (input.kind = "grid" /\ table # NotParsed) =>
        LET expected == ExpectedRecords(input.meta)
        IN  IF C2_LastQuotedEmpty
            THEN Rows = SubSeq(expected, 1, Len(expected) - 1)
            ELSE Rows = expected

\* C3: every Record has exactly the header row's set of column names as its keys.
C3_RecordKeys ==
    /\ table # NotParsed => \A i \in DOMAIN Rows : DOMAIN Rows[i] = Range(Headers)
    /\ (rootResult # NotParsed /\ ~rootResult[1].threw) =>
           \A i \in DOMAIN rootResult[1].data :
               DOMAIN rootResult[1].data[i] = Range(rootResult[1].headers)

\* C3 witness: both parsers returned a Record for a header that names a column twice.
C3_Witness ==
    /\ table # NotParsed
    /\ rootResult # NotParsed
    /\ ~rootResult[1].threw
    /\ Rows # <<>>
    /\ rootResult[1].data # <<>>
    /\ \E i, j \in DOMAIN Headers : i # j /\ Headers[i] = Headers[j]

RootMustThrow ==
    CASE input.kind = "quoted" -> ~input.meta.wide
      [] input.kind = "root" ->
             \/ \E h \in Range(requiredHeaders) : h \notin Range(input.meta.header)
             \/ \A i \in DOMAIN input.meta.rows : input.meta.rows[i].cell # Plain
      [] OTHER -> TRUE

C5_CrLfOneTerminator ==
    crlfTable # NotParsed =>
        /\ crlfTable = table
        /\ input.kind = "quoted" =>
               crlfTable[1].rows[1][QuotedColumn(input.meta)] = trim(input.meta.v)

\* C5 witness: a file whose quoted value keeps a \r and a \n, and whose row
\* terminator was rewritten, has been read in both forms.
C5_Witness ==
    /\ input.kind = "quoted"
    /\ {CR, LF} \subseteq Range(trim(input.meta.v))
    /\ ToCrLf(InputText(input)) # InputText(input)
    /\ crlfTable # NotParsed
    /\ {CR, LF} \subseteq Range(crlfTable[1].rows[1][QuotedColumn(input.meta)])

----------------------------------------------------------------------------
(* Helpers shared by the viewers *)

\* (row[column] || ''): the cell, or '' when the row has no such column
CellOrEmpty(row, column) == IF column \in DOMAIN row THEN row[column] ELSE <<>>

\* map.get(key) ?? fallback
MapGetOr(map, key, fallback) == IF key \in DOMAIN map THEN map[key] ELSE fallback

DigitChars == <<"0", "1", "2", "3", "4", "5", "6", "7", "8", "9">>

\* String(n) for n >= 0
RECURSIVE Decimal(_)
Decimal(n) ==
    IF n < 10 THEN <<DigitChars[n + 1]>>
    ELSE Decimal(n \div 10) \o <<DigitChars[(n % 10) + 1]>>

\* String.prototype.toLowerCase on the letters the model uses
LowerChar(c) ==
    CASE c = "A" -> "a" [] c = "B" -> "b" [] c = "U" -> "u" [] c = "R" -> "r"
      [] OTHER -> c

toLowerCase(str) == [i \in DOMAIN str |-> LowerChar(str[i])]

\* String.prototype.includes
includes(str, needle) ==
    \E i \in 1..(Len(str) - Len(needle) + 1) :
        SubSeq(str, i, i + Len(needle) - 1) = needle

----------------------------------------------------------------------------
(* DocumentSummaryViewer (src/viewer/docs/app.js) *)

\* the most data rows of a document-summary file
MaxDocRows == 3

Filename == <<"f", "i", "l", "e", "n", "a", "m", "e">>

\* the sam-url cells of the generated document files, as written in the file
DocKeyCells == {<<>>, <<SP>>, <<SP, "u">>, <<"U">>}

\* a document file: with or without a sam-url column, one row per key cell, the
\* filename cell of row i being the number i
DocFiles ==
    {f \in [keyed : BOOLEAN, keys : SeqsUpTo(DocKeyCells, MaxDocRows)] :
        f.keyed \/ \A i \in DOMAIN f.keys : f.keys[i] = <<>>}

DetectedDocType ==
    <<"d", "e", "t", "e", "c", "t", "e", "d", "_", "d", "o", "c", "_", "t", "y", "p", "e">>
SummaryColumn == <<"s", "u", "m", "m", "a", "r", "y">>

\* the most data rows of a document file with described documents
MaxDescribedRows == 2

\* the filename, detected_doc_type and summary cells of a described document
DescribedCells ==
    {[filename |-> <<"c">>, type |-> <<>>, summary |-> <<>>],
     [filename |-> <<"b">>, type |-> <<"A">>, summary |-> <<>>],
     [filename |-> <<"a">>, type |-> <<"b">>, summary |-> <<>>],
     [filename |-> <<"b">>, type |-> <<>>, summary |-> <<"a", SP, "b">>]}

\* a document file with the columns sam-url, filename, detected_doc_type and
\* summary, every row under the sam-url u
DescribedFiles ==
    {[keyed |-> TRUE, keys |-> [i \in DOMAIN t |-> <<"u">>], texts |-> t] :
        t \in SeqsUpTo(DescribedCells, MaxDescribedRows) \ {<<>>}}

Described(f) == "texts" \in DOMAIN f

AllDocFiles == DocFiles \cup DescribedFiles

DocLine(f, i) ==
    IF Described(f)
    THEN Join(<<f.keys[i], f.texts[i].filename, f.texts[i].type, f.texts[i].summary>>,
              <<COMMA>>)
    ELSE IF f.keyed THEN f.keys[i] \o <<COMMA>> \o Decimal(i) ELSE Decimal(i)

DocText(f) ==
    FileText(<<IF Described(f)
               THEN Join(<<SamUrl, Filename, DetectedDocType, SummaryColumn>>, <<COMMA>>)
               ELSE IF f.keyed THEN Join(<<SamUrl, Filename>>, <<COMMA>>) ELSE Filename>>
                 \o [i \in DOMAIN f.keys |-> DocLine(f, i)],
             <<LF>>, TRUE)

\* a function over a finite set of inputs, computed once and kept as a table
Tabulated(fn) == fn @@ <<>>

\* the files in some order, so that a file is known by its number
RECURSIVE SetToSeq(_)
SetToSeq(S) ==
    IF S = {} THEN <<>>
    ELSE LET x == CHOOSE x \in S : TRUE
         IN  <<x>> \o SetToSeq(S \ {x})

\* the document files listed part by part, a part holding the files of one
\* length, first and last key cell
DocFilePart(f) ==
    <<Len(f.keys), Described(f),
      IF f.keys = <<>> THEN <<>> ELSE <<f.keys[1], f.keys[Len(f.keys)]>>>>

DocFileParts ==
    SetToSeq({{g \in AllDocFiles : DocFilePart(g) = DocFilePart(f)} : f \in AllDocFiles})

DocFileList == Flatten([i \in DOMAIN DocFileParts |-> SetToSeq(DocFileParts[i])])

\* this._parseCsv(text) for each document file
DocRows == Tabulated([n \in DOMAIN DocFileList |-> parseCsv(DocText(DocFileList[n]))])

\* _groupByOpportunity as it would be without the `if (!samUrl) return`
RECURSIVE groupKeepingBlankKeys(_, _, _)
groupKeepingBlankKeys(rows, i, grouped) ==
    IF i > Len(rows) THEN grouped
    ELSE LET samUrl == trim(CellOrEmpty(rows[i], SamUrl))
             list == MapGetOr(grouped, samUrl, <<>>)
         IN  groupKeepingBlankKeys(rows, i + 1, SetKey(grouped, samUrl, Append(list, rows[i])))

\* _groupByOpportunity as it would be with list.unshift(row) for list.push(row)
RECURSIVE groupPrepending(_, _, _)
groupPrepending(rows, i, grouped) ==
    IF i > Len(rows) THEN grouped
    ELSE LET samUrl == trim(CellOrEmpty(rows[i], SamUrl))
             list == MapGetOr(grouped, samUrl, <<>>)
         IN  groupPrepending(rows, i + 1,
                             IF samUrl = <<>> THEN grouped
                             ELSE SetKey(grouped, samUrl, <<rows[i]>> \o list))

\* rows.forEach((row) => { ... }) of _groupByOpportunity, from row i on
RECURSIVE groupFrom(_, _, _)
groupFrom(rows, i, grouped) ==
    IF i > Len(rows) THEN grouped
    ELSE LET samUrl == trim(CellOrEmpty(rows[i], SamUrl))
             list == MapGetOr(grouped, samUrl, <<>>)
         IN  groupFrom(rows, i + 1,
                       IF samUrl = <<>> THEN grouped
                       ELSE SetKey(grouped, samUrl, Append(list, rows[i])))

\* _groupByOpportunity(rows).  The Map's insertion order is not kept: the viewer
\* only reads the Map by key and through a sort of its entries.
groupByOpportunity(rows) == groupFrom(rows, 1, EmptyMap)

\* a.localeCompare(b) < 0 for the keys of the model: letters in alphabetical
\* order, a lower-case letter before its upper-case form
Collation == <<SP, "a", "A", "b", "B", "u", "U">>

Rank(c) == CHOOSE r \in DOMAIN Collation : Collation[r] = c

RECURSIVE LocaleBefore(_, _)
LocaleBefore(a, b) ==
    IF a = <<>> THEN b # <<>>
    ELSE IF b = <<>> THEN FALSE
    ELSE IF Head(a) = Head(b) THEN LocaleBefore(Tail(a), Tail(b))
    ELSE Rank(Head(a)) < Rank(Head(b))

\* entries.sort((a, b) => a[0].localeCompare(b[0])), the keys only
RECURSIVE SortedKeys(_)
SortedKeys(keys) ==
    IF keys = {} THEN <<>>
    ELSE LET first == CHOOSE k \in keys : \A other \in keys \ {k} : LocaleBefore(k, other)
         IN  <<first>> \o SortedKeys(keys \ {first})

DocsInit ==
    /\ CsvIdle
    /\ DocsConstructed
    /\ CompareConstructed
    /\ RenderIdle
    /\ UnwrapIdle
    /\ RootConstructed

\* this._groupByOpportunity(rows) for each document file
DocGrouped == Tabulated([n \in DOMAIN DocFileList |-> groupByOpportunity(DocRows[n])])

\* the sorted entries of _populateOpportunitySelector for each document file
DocOptions == Tabulated([n \in DOMAIN DocFileList |-> SortedKeys(DOMAIN DocGrouped[n])])

\* the read of a selected file resolves: the .then of _handleFile, with
\* _populateOpportunitySelector and _handleOpportunityChange on the first option
DocFileLoaded ==
    \E n \in DOMAIN DocFileList :
        LET f == DocFileList[n]
            rows == DocRows[n]
            grouped == DocGrouped[n]
            options == DocOptions[n]
        IN  /\ IF rows = <<>>
               THEN UNCHANGED docsVars
               ELSE /\ documentsByOpportunity' = grouped
                    /\ docFile' = Some(f)
                    /\ IF options = <<>>
                       THEN UNCHANGED <<currentOpportunity, filteredDocuments,
                                        opportunityOptions, docSearchValue>>
                       ELSE /\ opportunityOptions' = options
                            /\ currentOpportunity' = Some(options[1])
                            /\ filteredDocuments' = MapGetOr(grouped, options[1], <<>>)
                            /\ docSearchValue' = <<>>
            /\ UNCHANGED <<csvVars, compareVars, renderVars, unwrapVars, rootVars>>

\* the user picks option k of opportunitySelect: _handleOpportunityChange
HandleOpportunityChange ==
    \E k \in DOMAIN opportunityOptions :
        /\ currentOpportunity' = Some(opportunityOptions[k])
        /\ filteredDocuments' = MapGetOr(documentsByOpportunity, opportunityOptions[k], <<>>)
        /\ docSearchValue' = <<>>
        /\ UNCHANGED <<documentsByOpportunity, opportunityOptions, docFile>>
        /\ UNCHANGED <<csvVars, compareVars, renderVars, unwrapVars, rootVars>>

\* what the user types into the search box
DocSearchValues ==
    {<<>>, <<"a">>, <<"A", SP>>, <<"a", SP, "b">>, <<"u", "n", "d">>}

UndefinedText == <<"u", "n", "d", "e", "f", "i", "n", "e", "d">>

\* `${value}` in a template literal: the text of a cell, undefined for a missing key
TemplateCell(doc, column) == IF column \in DOMAIN doc THEN doc[column] ELSE UndefinedText

\* the haystack of the filter callback of _applySearch
haystack(doc) ==
    toLowerCase(TemplateCell(doc, Filename) \o <<SP>> \o TemplateCell(doc, DetectedDocType)
                    \o <<SP>> \o TemplateCell(doc, SummaryColumn))

\* the haystack as it would be if it were the filename alone
haystackOfFilename(doc) == toLowerCase(TemplateCell(doc, Filename))

\* the filteredDocuments _applySearch leaves for the documents and the search box
docsSearched(documents, value) ==
    LET keyword == toLowerCase(trim(value))
    IN  IF keyword = <<>> THEN documents
        ELSE SelectSeq(documents, LAMBDA doc : includes(haystack(doc), keyword))

\* the user types value into the search box, which _populateOpportunitySelector
\* has put on show: _applySearch
DocApplySearch(value) ==
    /\ opportunityOptions # <<>>
    /\ docSearchValue' = value
    /\ IF currentOpportunity = Null
       THEN UNCHANGED filteredDocuments
       ELSE filteredDocuments' =
                docsSearched(MapGetOr(documentsByOpportunity, currentOpportunity[1], <<>>),
                             value)
    /\ UNCHANGED <<documentsByOpportunity, currentOpportunity, opportunityOptions, docFile>>
    /\ UNCHANGED <<csvVars, compareVars, renderVars, unwrapVars, rootVars>>

DocsNext ==
    \/ DocFileLoaded
    \/ HandleOpportunityChange
    \/ \E value \in DocSearchValues : DocApplySearch(value)

SpecDocs == DocsInit /\ [][DocsNext]_vars

\* the Records of the file whose rows were last grouped
DocRecord(f, i) ==
    IF Described(f)
    THEN (SamUrl :> trim(f.keys[i])) @@ (Filename :> f.texts[i].filename)
             @@ (DetectedDocType :> f.texts[i].type) @@ (SummaryColumn :> f.texts[i].summary)
    ELSE IF f.keyed
    THEN (SamUrl :> trim(f.keys[i])) @@ (Filename :> Decimal(i))
    ELSE (Filename :> Decimal(i))

\* whether row i of the file has a key to be grouped under
DocKeyBlank(f, i) == ~f.keyed \/ trim(f.keys[i]) = <<>>

AllGrouped ==
    UNION {Range(documentsByOpportunity[k]) : k \in DOMAIN documentsByOpportunity}

\* C6: a row whose sam-url is missing, empty or white space is in no group, and no
\* group is keyed by the empty string (nor by white space).
C6_BlankKeysExcluded ==
    docFile # Null =>
        /\ \A i \in DOMAIN docFile[1].keys :
               DocKeyBlank(docFile[1], i) => DocRecord(docFile[1], i) \notin AllGrouped
        /\ \A k \in DOMAIN documentsByOpportunity : trim(k) # <<>>

\* C6 witness: a file with a white-space key, an empty key and a real key was
\* grouped, and a group exists.
C6_Witness ==
    /\ docFile # Null
    /\ docFile[1].keyed
    /\ \E i, j, k \in DOMAIN docFile[1].keys :
           /\ docFile[1].keys[i] = <<SP>>
           /\ docFile[1].keys[j] = <<>>
           /\ trim(docFile[1].keys[k]) # <<>>
    /\ DOMAIN documentsByOpportunity # {}

\* the rows of the file with trimmed key k, in file order
RECURSIVE DocsWithKey(_, _, _)
DocsWithKey(f, k, i) ==
    IF i > Len(f.keys) THEN <<>>
    ELSE (IF ~DocKeyBlank(f, i) /\ trim(f.keys[i]) = k THEN <<DocRecord(f, i)>> ELSE <<>>)
         \o DocsWithKey(f, k, i + 1)

\* C7: the groups are the rows with a non-blank key, each once, under exactly its
\* trimmed key (u and U apart), in file order within the group.
C7_OrderPreservingPartition ==
    docFile # Null =>
        /\ DOMAIN documentsByOpportunity =
               {trim(docFile[1].keys[i]) :
                    i \in {j \in DOMAIN docFile[1].keys : ~DocKeyBlank(docFile[1], j)}}
        /\ \A k \in DOMAIN documentsByOpportunity :
               documentsByOpportunity[k] = DocsWithKey(docFile[1], k, 1)

\* C7 witness: a group of two rows that were apart in the file, their keys trimmed,
\* and a group under the same letter in the other case.
C7_Witness ==
    /\ docFile # Null
    /\ <<"u">> \in DOMAIN documentsByOpportunity
    /\ <<"U">> \in DOMAIN documentsByOpportunity
    /\ Len(documentsByOpportunity[<<"u">>]) = 2
    /\ docFile[1].keys[2] = <<"U">>
----------------------------------------------------------------------------
(* GovBeaconCompare (src/viewer/compare/app.js) *)

\* the most data rows of a base file
MaxBaseRows == 2

Title == <<"t", "i", "t", "l", "e">>
OpportunityId == <<"o", "p", "p", "o", "r", "t", "u", "n", "i", "t", "y", "_", "i", "d">>

\* the sam-url cells of the generated base files
BaseKeyCells == {<<>>, <<"a">>, <<"b">>}

\* a base file: a sam-url column and a title column, one row per key cell, the
\* title cell of row i being the number i
BaseFiles == [keys : SeqsUpTo(BaseKeyCells, MaxBaseRows)]

\* the sam-url cells, row by row, of the generated summary files: no row, one row,
\* a key that no base file has, the same key twice, and blank keys before and
\* between rows of the same key
SummaryKeyLists ==
    {<<>>, <<<<"a">>>>, <<<<"c">>>>, <<<<"a">>, <<"a">>>>, <<<<>>, <<"a">>>>,
     <<<<"a">>, <<SP>>, <<"a">>>>}

\* a summary file: a sam-url column and an opportunity_id column whose cell of row
\* i is the number i
SummaryFiles == [keys : SummaryKeyLists]

CompareLine(f, i) == f.keys[i] \o <<COMMA>> \o Decimal(i)

\* the text of a file whose second column is `column`
CompareText(f, column) ==
    FileText(<<Join(<<SamUrl, column>>, <<COMMA>>)>>
                 \o [i \in DOMAIN f.keys |-> CompareLine(f, i)],
             <<LF>>, TRUE)

\* this._parseCsv(text) for each base file and each summary file
BaseRowsOf == Tabulated([f \in BaseFiles |-> parseCsv(CompareText(f, Title))])
SummaryRowsOf ==
    Tabulated([f \in SummaryFiles |-> parseCsv(CompareText(f, OpportunityId))])

\* the values typed into the search box
SearchValues == {<<>>, <<SP, "B">>}

\* summaryRows.forEach of _handleSummaryFile as it would be if a key already in the
\* Map were left alone
RECURSIVE summaryMapKeepingFirst(_, _, _)
summaryMapKeepingFirst(rows, i, map) ==
    IF i > Len(rows) THEN map
    ELSE LET samUrl == trim(CellOrEmpty(rows[i], SamUrl))
         IN  summaryMapKeepingFirst(rows, i + 1,
                 IF samUrl = <<>> \/ samUrl \in DOMAIN map THEN map
                 ELSE SetKey(map, samUrl, rows[i]))

\* this.summaryRows.forEach((row) => { ... this.summaryMap.set(samUrl, row) }),
\* from row i on
RECURSIVE summaryMapFrom(_, _, _)
summaryMapFrom(rows, i, map) ==
    IF i > Len(rows) THEN map
    ELSE LET samUrl == trim(CellOrEmpty(rows[i], SamUrl))
         IN  summaryMapFrom(rows, i + 1,
                 IF samUrl = <<>> THEN map ELSE SetKey(map, samUrl, rows[i]))

\* a || b on strings
OrElse(a, b) == IF a # <<>> THEN a ELSE b

\* `Row ${index + 1}`
RowLabel(index) == <<"R", "o", "w", SP>> \o Decimal(index + 1)

\* the callback of baseRows.map in _tryMerge for the row at JS index `index`:
\* null, or the merged row
mergeRow(row, index, map) ==
    LET samUrl == trim(CellOrEmpty(row, SamUrl))
        summaryRow == IF samUrl \in DOMAIN map THEN Some(map[samUrl]) ELSE Null
        summaryId == IF summaryRow = Null THEN <<>>
                     ELSE CellOrEmpty(summaryRow[1], OpportunityId)
    IN  IF samUrl = <<>> THEN Null
        ELSE Some([index |-> index,
                   samUrl |-> samUrl,
                   opportunityId |-> OrElse(CellOrEmpty(row, OpportunityId),
                                            OrElse(summaryId, RowLabel(index))),
                   baseRow |-> row,
                   summaryRow |-> summaryRow])

\* this.baseRows.map(...).filter(Boolean)
merge(rows, map) == Flatten([i \in DOMAIN rows |-> mergeRow(rows[i], i - 1, map)])

\* the columns of the generated files in the order the parser sets them on a Record
ColumnOrder == <<SamUrl, Title, OpportunityId>>

\* JSON.stringify of a string that needs no escape
JsonString(str) == <<QUOTE>> \o str \o <<QUOTE>>

\* JSON.stringify(row) of a Record
stringify(row) ==
    LET members == Flatten([c \in DOMAIN ColumnOrder |->
                       IF ColumnOrder[c] \in DOMAIN row
                       THEN <<JsonString(ColumnOrder[c]) \o <<":">>
                                \o JsonString(row[ColumnOrder[c]])>>
                       ELSE <<>>])
    IN  <<"{">> \o Join(members, <<COMMA>>) \o <<"}">>

\* the filter callback of _applySearch
matches(row, keyword) ==
    LET base == toLowerCase(stringify(row.baseRow))
        summary == IF row.summaryRow # Null
                   THEN toLowerCase(stringify(row.summaryRow[1])) ELSE <<>>
    IN  includes(base, keyword) \/ includes(summary, keyword)

\* the filteredRows that _applySearch leaves for the merged rows and the search box
searched(merged, value) ==
    LET keyword == toLowerCase(trim(value))
    IN  IF keyword = <<>> THEN merged
        ELSE Flatten([i \in DOMAIN merged |->
                         IF matches(merged[i], keyword) THEN <<merged[i]>> ELSE <<>>])

\* _tryMerge() with the tables the handler has just set
tryMerge(base, summary, map) ==
    IF base = <<>> \/ summary = <<>>
    THEN UNCHANGED <<mergedRows, filteredRows>>
    ELSE LET merged == merge(base, map)
         IN  /\ mergedRows' = merged
             /\ IF merged = <<>>
                THEN UNCHANGED filteredRows
                ELSE filteredRows' = searched(merged, searchValue)

\* the fetch of input.csv resolves with a file: the second .then of
\* _autoLoadInputCsv
AutoLoadDone ==
    /\ autoPending
    /\ \E f \in BaseFiles :
           /\ baseRows' = BaseRowsOf[f]
           /\ tryMerge(BaseRowsOf[f], summaryRows, summaryMap)
    /\ autoPending' = FALSE
    /\ loaded' = loaded \cup {"base"}
    /\ UNCHANGED <<summaryRows, summaryMap, searchValue, baseRead>>
    /\ UNCHANGED <<csvVars, docsVars, renderVars, unwrapVars, rootVars>>

\* the fetch of input.csv fails: the .catch of _autoLoadInputCsv
AutoLoadFailed ==
    /\ autoPending
    /\ autoPending' = FALSE
    /\ UNCHANGED <<baseRows, summaryRows, summaryMap, mergedRows, filteredRows,
                   searchValue, loaded, baseRead>>
    /\ UNCHANGED <<csvVars, docsVars, renderVars, unwrapVars, rootVars>>

\* the read of a selected base file resolves: the .then of _handleBaseFile
HandleBaseFile ==
    /\ \E f \in BaseFiles :
           /\ baseRows' = BaseRowsOf[f]
           /\ tryMerge(BaseRowsOf[f], summaryRows, summaryMap)
    /\ loaded' = loaded \cup {"base"}
    /\ UNCHANGED <<summaryRows, summaryMap, searchValue, autoPending, baseRead>>
    /\ UNCHANGED <<csvVars, docsVars, renderVars, unwrapVars, rootVars>>

\* the read of a selected summary file resolves: the .then of _handleSummaryFile
HandleSummaryFile ==
    /\ \E f \in SummaryFiles :
           LET rows == SummaryRowsOf[f]
               map == summaryMapFrom(rows, 1, EmptyMap)
           IN  /\ summaryRows' = rows
               /\ summaryMap' = map
               /\ tryMerge(baseRows, rows, map)
    /\ loaded' = loaded \cup {"summary"}
    /\ UNCHANGED <<baseRows, searchValue, autoPending, baseRead>>
    /\ UNCHANGED <<csvVars, docsVars, renderVars, unwrapVars, rootVars>>

\* the user edits the search box: the input event and _applySearch
ApplySearch ==
    /\ \E value \in SearchValues :
           /\ searchValue' = value
           /\ filteredRows' = searched(mergedRows, value)
    /\ UNCHANGED <<baseRows, summaryRows, summaryMap, mergedRows, autoPending, loaded,
                   baseRead>>
    /\ UNCHANGED <<csvVars, docsVars, renderVars, unwrapVars, rootVars>>

CompareInit ==
    /\ CsvIdle
    /\ DocsConstructed
    /\ CompareConstructed
    /\ RenderIdle
    /\ UnwrapIdle
    /\ RootConstructed

CompareNext ==
    \/ AutoLoadDone
    \/ AutoLoadFailed
    \/ HandleBaseFile
    \/ HandleSummaryFile
    \/ ApplySearch

SpecCompare == CompareInit /\ [][CompareNext]_vars

----------------------------------------------------------------------------
(* The base table's loads, the read of the selected file in flight *)

\* the user selects a base file: _handleBaseFile up to this._readFile(file)
SelectBaseFile ==
    /\ IF baseRead = Null THEN TRUE ELSE baseRead[1].state = "done"
    /\ \E f \in BaseFiles :
           baseRead' = <<[file |-> f, whileAuto |-> autoPending, state |-> "pending",
                         last |-> FALSE]>>
    /\ UNCHANGED <<baseRows, summaryRows, summaryMap, mergedRows, filteredRows,
                   searchValue, autoPending, loaded>>
    /\ UNCHANGED <<csvVars, docsVars, renderVars, unwrapVars, rootVars>>

\* the read of the selected file resolves: the .then of _handleBaseFile
BaseReadDone ==
    /\ baseRead # Null
    /\ baseRead[1].state = "pending"
    /\ baseRows' = BaseRowsOf[baseRead[1].file]
    /\ tryMerge(BaseRowsOf[baseRead[1].file], summaryRows, summaryMap)
    /\ loaded' = loaded \cup {"base"}
    /\ baseRead' = <<[baseRead[1] EXCEPT !.state = "done", !.last = ~autoPending]>>
    /\ UNCHANGED <<summaryRows, summaryMap, searchValue, autoPending>>
    /\ UNCHANGED <<csvVars, docsVars, renderVars, unwrapVars, rootVars>>

\* the read of the selected file rejects: the .catch of _handleBaseFile
BaseReadFailed ==
    /\ baseRead # Null
    /\ baseRead[1].state = "pending"
    /\ baseRead' = Null
    /\ UNCHANGED <<baseRows, summaryRows, summaryMap, mergedRows, filteredRows,
                   searchValue, autoPending, loaded>>
    /\ UNCHANGED <<csvVars, docsVars, renderVars, unwrapVars, rootVars>>

RaceNext ==
    \/ AutoLoadDone
    \/ AutoLoadFailed
    \/ SelectBaseFile
    \/ BaseReadDone
    \/ BaseReadFailed
    \/ HandleSummaryFile

SpecRace == CompareInit /\ [][RaceNext]_vars

\* the trimmed sam-url of a Record, empty when the column is missing
RowKey(row) == trim(CellOrEmpty(row, SamUrl))

HasKey(row) == RowKey(row) # <<>>

\* the place in `other` of the last Record with key k, 0 when there is none
LastWithKey(other, k) ==
    LET places == {j \in DOMAIN other : RowKey(other[j]) = k}
    IN  IF places = {} THEN 0 ELSE CHOOSE j \in places : \A l \in places : l <= j

\* the left outer join of two tables on sam-url, as pairs of a base Record and the
\* last other Record of the same key, or Null
LeftJoin(base, other) ==
    LET keyed == SelectSeq(base, HasKey)
    IN  [i \in DOMAIN keyed |->
            LET j == LastWithKey(other, RowKey(keyed[i]))
            IN  <<keyed[i], IF j = 0 THEN Null ELSE Some(other[j])>>]

\* mergedRows as pairs of a base Record and its summary Record or Null
MergedPairs == [i \in DOMAIN mergedRows |-> <<mergedRows[i].baseRow, mergedRows[i].summaryRow>>]

\* C8: once a base file with rows and a summary file (with or without rows, with or
\* without a matching key) are loaded, mergedRows is the left outer join of the
\* two: one merged row per base Record with a non-blank key, in base order,
\* carrying the matching summary Record or null.
C8_LeftOuterJoin ==
    (baseRows # <<>> /\ "summary" \in loaded) =>
        MergedPairs = LeftJoin(baseRows, summaryRows)

\* the same where both tables have rows: the case in which _tryMerge runs the join
C8_JoinWhenBothHaveRows ==
    (baseRows # <<>> /\ summaryRows # <<>>) =>
        MergedPairs = LeftJoin(baseRows, summaryRows)

\* C9: when the merge has run on the tables held, every merged row carries the
\* last summary Record of its key in summary order (null when there is none), and
\* no merged row carries a summary Record whose key is blank.
C9_LastRecordWins ==
    (baseRows # <<>> /\ summaryRows # <<>>) =>
        \A i \in DOMAIN mergedRows :
            LET m == mergedRows[i]
                j == LastWithKey(summaryRows, m.samUrl)
            IN  /\ m.samUrl # <<>>
                /\ m.summaryRow = (IF j = 0 THEN Null ELSE Some(summaryRows[j]))
                /\ m.summaryRow # Null => HasKey(m.summaryRow[1])

\* C9 witness: the summary file holds two Records of one key with a blank-keyed
\* Record between them, and a merged row of that key carries the later one.
C9_Witness ==
    /\ baseRows # <<>>
    /\ Len(summaryRows) = 3
    /\ RowKey(summaryRows[1]) = RowKey(summaryRows[3])
    /\ ~HasKey(summaryRows[2])
    /\ \E i \in DOMAIN mergedRows :
           /\ mergedRows[i].samUrl = RowKey(summaryRows[3])
           /\ mergedRows[i].summaryRow = Some(summaryRows[3])
           /\ mergedRows[i].summaryRow # Some(summaryRows[1])

\* C10: mergedRows is the merge of the baseRows and summaryMap now held, or is
\* empty: no merged row outlives the file it was made from.
C10_MergedRowsCurrent ==
    \/ mergedRows = merge(baseRows, summaryMap)
    \/ mergedRows = <<>>
----------------------------------------------------------------------------
(* GovBeaconCompare._parseMarkdown (src/viewer/compare/app.js) *)

\* the LineTerminator characters of a JS regular expression, among those the
\* model uses: `.` does not match them, and with the m flag ^ matches after one
\* and $ before one
LineTerminators == {LF, CR}

\* whether the literal lit stands in text at place p
At(text, p, lit) ==
    /\ p >= 1
    /\ p + Len(lit) - 1 <= Len(text)
    /\ SubSeq(text, p, p + Len(lit) - 1) = lit

\* the least element of a non-empty set of numbers
Least(S) == CHOOSE n \in S : \A m \in S : n <= m

\* ^ with the m flag: the start of the text or the place after a line terminator
LineStart(text, p) == p = 1 \/ text[p - 1] \in LineTerminators

\* the place of the last character of the line that holds place p (p - 1 when the
\* line is empty from p on)
LineEnd(text, p) ==
    LET ends == {e \in p..Len(text) : text[e] \in LineTerminators}
    IN  IF ends = {} THEN Len(text) ELSE Least(ends) - 1

\* String.prototype.replace with a g flag, given its matches: each match is
\* [start, stop, by], the characters start..stop being replaced by `by`
ReplaceSpans(text, spans) ==
    Flatten([p \in 1..Len(text) |->
        IF \E m \in spans : m.start = p
        THEN (CHOOSE m \in spans : m.start = p).by
        ELSE IF \E m \in spans : m.start < p /\ p <= m.stop
        THEN <<>>
        ELSE <<text[p]>>])

Amp == <<"&", "a", "m", "p", ";">>
Lt  == <<"&", "l", "t", ";">>
Gt  == <<"&", "g", "t", ";">>

\* a Step 1 that escapes nothing
escapeNothing(text) == text

\* Step 1: .replace(/&/g, '&amp;').replace(/</g, '&lt;').replace(/>/g, '&gt;')
escapeHtml(text) ==
    Flatten([p \in DOMAIN text |->
        CASE text[p] = "&" -> Amp
          [] text[p] = "<" -> Lt
          [] text[p] = ">" -> Gt
          [] OTHER -> <<text[p]>>])

\* "#", "##", ... : n hashes and a space
HeaderMarker(n) == [i \in 1..n |-> "#"] \o <<SP>>

OpenTag(name) == <<"<">> \o name \o <<">">>
CloseTag(name) == <<"<", "/">> \o name \o <<">">>

\* the element name h1 .. h4
HeaderName(n) == <<"h", DigitChars[n + 1]>>

\* .replace(/^#{n} (.*)$/gm, '<hn>$1</hn>')
replaceHeader(text, n) ==
    LET marker == HeaderMarker(n)
        found ==
            {[start |-> p,
              stop |-> LineEnd(text, p),
              by |-> OpenTag(HeaderName(n))
                       \o SubSeq(text, p + Len(marker), LineEnd(text, p))
                       \o CloseTag(HeaderName(n))] :
                 p \in {q \in 1..Len(text) : LineStart(text, q) /\ At(text, q, marker)}}
    IN  ReplaceSpans(text, found)

\* Step 2: the four header replacements, longest marker first
replaceHeaders(text) ==
    replaceHeader(replaceHeader(replaceHeader(replaceHeader(text, 4), 3), 2), 1)
Strong == <<"s", "t", "r", "o", "n", "g">>
Em == <<"e", "m">>
Stars == <<"*", "*">>

\* '<a href="$2" target="_blank" rel="noopener">$1</a>'
AnchorOpen == <<"<", "a", SP, "h", "r", "e", "f", "=", QUOTE>>
AnchorAttrs ==
    <<QUOTE, SP, "t", "a", "r", "g", "e", "t", "=", QUOTE, "_", "b", "l", "a", "n", "k",
      QUOTE, SP, "r", "e", "l", "=", QUOTE, "n", "o", "o", "p", "e", "n", "e", "r", QUOTE,
      ">">>
AnchorClose == <<"<", "/", "a", ">">>

NoMatch == <<>>

\* /\*\*(.+?)\*\*/ tried at place p: ** , the fewest characters (one at least,
\* none a line terminator) that are followed by ** , and that **
boldAt(text, p) ==
    LET sizes == {k \in 1..Len(text) :
                     /\ At(text, p + 2 + k, Stars)
                     /\ \A j \in (p + 2)..(p + 1 + k) : text[j] \notin LineTerminators}
    IN  IF ~At(text, p, Stars) \/ sizes = {} THEN NoMatch
        ELSE <<[start |-> p,
                stop |-> p + 3 + Least(sizes),
                by |-> OpenTag(Strong) \o SubSeq(text, p + 2, p + 1 + Least(sizes))
                         \o CloseTag(Strong)]>>

\* /\*([^*\s]+[^*]*[^*\s]+)\*/ tried at place p: * , then characters that are not
\* * up to the next * : two at least, the first and the last not white space
italicAt(text, p) ==
    LET stars == {q \in (p + 1)..Len(text) : text[q] = "*"}
        q == Least(stars)
    IN  IF p > Len(text) \/ text[p] # "*" \/ stars = {} THEN NoMatch
        ELSE IF q - p - 1 < 2 \/ text[p + 1] \in WhiteSpace \/ text[q - 1] \in WhiteSpace
        THEN NoMatch
        ELSE <<[start |-> p,
                stop |-> q,
                by |-> OpenTag(Em) \o SubSeq(text, p + 1, q - 1) \o CloseTag(Em)]>>

\* /\[([^\]]+)\]\(([^)]+)\)/ tried at place p: [ , one character at least up to the
\* next ] , then ( , one character at least up to the next ) , and that )
linkAt(text, p) ==
    LET closes == {q \in (p + 1)..Len(text) : text[q] = "]"}
        q == Least(closes)
        parens == {r \in (q + 2)..Len(text) : text[r] = ")"}
        r == Least(parens)
    IN  IF p > Len(text) \/ text[p] # "[" \/ closes = {} THEN NoMatch
        ELSE IF q = p + 1 \/ ~At(text, q + 1, <<"(">>) \/ parens = {} THEN NoMatch
        ELSE IF r = q + 2 THEN NoMatch
        ELSE <<[start |-> p,
                stop |-> r,
                by |-> AnchorOpen \o SubSeq(text, q + 2, r - 1) \o AnchorAttrs
                         \o SubSeq(text, p + 1, q - 1) \o AnchorClose]>>

\* one of the three inline expressions tried at place p
inlineAt(rule, text, p) ==
    CASE rule = "bold" -> boldAt(text, p)
      [] rule = "italic" -> italicAt(text, p)
      [] rule = "link" -> linkAt(text, p)

\* the matches of a g-flagged inline expression from place `from` on: the leftmost
\* match, then the matches after its end
RECURSIVE inlineSpans(_, _, _)
inlineSpans(rule, text, from) ==
    LET places == {p \in from..Len(text) : inlineAt(rule, text, p) # NoMatch}
        first == inlineAt(rule, text, Least(places))[1]
    IN  IF places = {} THEN {}
        ELSE {first} \cup inlineSpans(rule, text, first.stop + 1)

replaceInline(rule, text) == ReplaceSpans(text, inlineSpans(rule, text, 1))

\* text.replace(bold).replace(italic): Step 4, and the start of processInlineFormatting
boldItalic(text) == replaceInline("italic", replaceInline("bold", text))

\* processInlineFormatting(text)
processInlineFormatting(text) == replaceInline("link", boldItalic(text))
Digits == Range(DigitChars)

\* the first place from p on whose character is not in the set S (Len(text) + 1
\* when every character from p on is in S)
SkipAll(text, p, S) ==
    LET others == {q \in p..Len(text) : text[q] \notin S}
    IN  IF others = {} THEN Len(text) + 1 ELSE Least(others)

\* the greatest element of a non-empty set of numbers
Greatest(S) == CHOOSE n \in S : \A m \in S : m <= n

\* the place of the last character of a list marker that starts at place m, 0 if
\* none does: [\*\-] for an unordered item, (\d+)\. for an ordered one
markerEnd(type, text, m) ==
    IF m > Len(text) THEN 0
    ELSE IF type = "ul" THEN (IF text[m] \in {"*", "-"} THEN m ELSE 0)
    ELSE LET d == SkipAll(text, m, Digits)
         IN  IF d > m /\ d <= Len(text) /\ text[d] = "." THEN d ELSE 0

\* /^(\s*)([\*\-])\s+(.+)$/m or /^(\s*)(\d+)\.\s+(.+)$/m tried at place p.  \s* takes
\* the white space from p on, line terminators included; after the marker \s+
\* takes white space and gives back until (.+) can start on a character that is
\* not a line terminator; (.+) then runs to the end of that line.
listItemAt(type, text, p) ==
    LET m == SkipAll(text, p, WhiteSpace)
        e == markerEnd(type, text, m)
        n == SkipAll(text, e + 1, WhiteSpace)
        starts == {c \in (e + 2)..n : c <= Len(text) /\ text[c] \notin LineTerminators}
        c == Greatest(starts)
    IN  IF ~LineStart(text, p) \/ e = 0 \/ starts = {} THEN NoMatch
        ELSE <<[start |-> p,
                stop |-> LineEnd(text, c),
                indent |-> SubSeq(text, p, m - 1),
                content |-> SubSeq(text, c, LineEnd(text, c))]>>

\* the matches of the g-flagged list expression from place `from` on, in order
RECURSIVE listItems(_, _, _)
listItems(type, text, from) ==
    LET places == {p \in from..Len(text) : listItemAt(type, text, p) # NoMatch}
        first == listItemAt(type, text, Least(places))[1]
    IN  IF places = {} THEN <<>>
        ELSE <<first>> \o listItems(type, text, first.stop + 1)

ListItemToken == <<"_", "_", "L", "I", "S", "T", "_", "I", "T", "E", "M", "_">>

\* `__LIST_ITEM_${placeholderIndex}__`
Placeholder(index) == ListItemToken \o Decimal(index) \o <<"_", "_">>

\* a Step 3 that stores the content of an item as it stands in the text
extractItemsUnformatted(type, st) ==
    LET items == listItems(type, st.html, 1)
        count == Len(st.listPlaceholders)
    IN  [html |-> ReplaceSpans(st.html,
                     {[start |-> items[i].start,
                       stop |-> items[i].stop,
                       by |-> items[i].indent \o Placeholder(count + i - 1)] :
                          i \in DOMAIN items}),
         listPlaceholders |-> st.listPlaceholders \o
             [i \in DOMAIN items |-> [type |-> type, content |-> items[i].content]]]

\* one of the two html.replace calls of Step 3 on [html, listPlaceholders]: every
\* item line becomes its indent and a placeholder, and its formatted content is
\* stored under the placeholder's index (a JS index: Len of the list so far)
extractItems(type, st) ==
    LET items == listItems(type, st.html, 1)
        count == Len(st.listPlaceholders)
    IN  [html |-> ReplaceSpans(st.html,
                     {[start |-> items[i].start,
                       stop |-> items[i].stop,
                       by |-> items[i].indent \o Placeholder(count + i - 1)] :
                          i \in DOMAIN items}),
         listPlaceholders |-> st.listPlaceholders \o
             [i \in DOMAIN items |->
                 [type |-> type, content |-> processInlineFormatting(items[i].content)]]]

\* Step 3: unordered items, then ordered items
extractLists(text) ==
    extractItems("ol", extractItems("ul", [html |-> text, listPlaceholders |-> <<>>]))
\* String.prototype.split on a separator character
RECURSIVE split(_, _)
split(text, sep) ==
    LET places == {p \in DOMAIN text : text[p] = sep}
    IN  IF places = {} THEN <<text>>
        ELSE <<SubSeq(text, 1, Least(places) - 1)>>
                 \o split(SubSeq(text, Least(places) + 1, Len(text)), sep)

\* Array.prototype.join
join(pieces, sep) == Join(pieces, sep)

\* parseInt of a string of digits
RECURSIVE parseInt(_)
parseInt(digits) ==
    IF digits = <<>> THEN 0
    ELSE 10 * parseInt(SubSeq(digits, 1, Len(digits) - 1))
           + ((CHOOSE d \in DOMAIN DigitChars : DigitChars[d] = digits[Len(digits)]) - 1)

\* line.match(/^(\s*)__LIST_ITEM_(\d+)__$/): NoMatch, or <<the number>>
placeholderMatch(line) ==
    LET m == SkipAll(line, 1, WhiteSpace)
        d == m + Len(ListItemToken)
        e == SkipAll(line, d, Digits)
    IN  IF At(line, m, ListItemToken) /\ e > d /\ At(line, e, <<"_", "_">>)
           /\ e + 1 = Len(line)
        THEN <<parseInt(SubSeq(line, d, e - 1))>>
        ELSE NoMatch

Ul == <<"u", "l">>
Ol == <<"o", "l">>
Li == <<"l", "i">>

\* the body of the for loop of Step 6 for one line, on
\* [processedLines, inUnorderedList, inOrderedList]
restoreLine(line, listPlaceholders, st) ==
    LET found == placeholderMatch(line)
        known == found # NoMatch /\ found[1] + 1 \in DOMAIN listPlaceholders
        placeholder == listPlaceholders[found[1] + 1]
        item == OpenTag(Li) \o placeholder.content \o CloseTag(Li)
    IN  IF found # NoMatch /\ ~known
        THEN [st EXCEPT !.processedLines = Append(@, line)]
        ELSE IF known /\ placeholder.type = "ul"
        THEN [processedLines |->
                  st.processedLines
                    \o (IF st.inUnorderedList THEN <<>>
                        ELSE (IF st.inOrderedList THEN <<CloseTag(Ol)>> ELSE <<>>)
                               \o <<OpenTag(Ul)>>)
                    \o <<item>>,
              inUnorderedList |-> TRUE,
              inOrderedList |-> IF st.inUnorderedList THEN st.inOrderedList ELSE FALSE]
        ELSE IF known
        THEN [processedLines |->
                  st.processedLines
                    \o (IF st.inOrderedList THEN <<>>
                        ELSE (IF st.inUnorderedList THEN <<CloseTag(Ul)>> ELSE <<>>)
                               \o <<OpenTag(Ol)>>)
                    \o <<item>>,
              inUnorderedList |-> IF st.inOrderedList THEN st.inUnorderedList ELSE FALSE,
              inOrderedList |-> TRUE]
        ELSE [processedLines |->
                  st.processedLines
                    \o (IF st.inUnorderedList THEN <<CloseTag(Ul)>> ELSE <<>>)
                    \o (IF st.inOrderedList THEN <<CloseTag(Ol)>> ELSE <<>>)
                    \o <<line>>,
              inUnorderedList |-> FALSE,
              inOrderedList |-> FALSE]

\* the for loop of Step 6 from line i on
RECURSIVE restoreFrom(_, _, _, _)
restoreFrom(lines, i, listPlaceholders, st) ==
    IF i > Len(lines) THEN st
    ELSE restoreFrom(lines, i + 1, listPlaceholders,
                     restoreLine(lines[i], listPlaceholders, st))

\* Step 6: the lines with the placeholders restored as lists, joined again
restoreLists(text, listPlaceholders) ==
    LET st == restoreFrom(split(text, LF), 1, listPlaceholders,
                          [processedLines |-> <<>>,
                           inUnorderedList |-> FALSE,
                           inOrderedList |-> FALSE])
    IN  join(st.processedLines
               \o (IF st.inUnorderedList THEN <<CloseTag(Ul)>> ELSE <<>>)
               \o (IF st.inOrderedList THEN <<CloseTag(Ol)>> ELSE <<>>),
             <<LF>>)

\* html.split(/\n\n+/): the pieces between the runs of two or more \n
RECURSIVE splitParagraphs(_)
splitParagraphs(text) ==
    LET places == {p \in DOMAIN text : At(text, p, <<LF, LF>>)}
        p == Least(places)
    IN  IF places = {} THEN <<text>>
        ELSE <<SubSeq(text, 1, p - 1)>>
                 \o splitParagraphs(SubSeq(text, SkipAll(text, p, {LF}), Len(text)))

Br == <<"<", "b", "r", ">">>

\* para.replace(/\n/g, '<br>')
breakLines(para) ==
    Flatten([p \in DOMAIN para |-> IF para[p] = LF THEN Br ELSE <<para[p]>>])

\* the names after < in /^<(h[1-6]|ul|ol|li|p|div|blockquote|pre)/
BlockNames ==
    {<<"h", d>> : d \in {"1", "2", "3", "4", "5", "6"}}
        \cup {Ul, Ol, Li, <<"p">>, <<"d", "i", "v">>,
              <<"b", "l", "o", "c", "k", "q", "u", "o", "t", "e">>, <<"p", "r", "e">>}

\* para.match(/^<(h[1-6]|ul|ol|li|p|div|blockquote|pre)/)
startsWithBlockTag(para) == \E name \in BlockNames : At(para, 1, <<"<">> \o name)

\* para.match(/^<(ul|ol)/)
startsWithList(para) == At(para, 1, <<"<">> \o Ul) \/ At(para, 1, <<"<">> \o Ol)

P == <<"p">>

\* a callback that wraps every block that is not empty in <p>...</p>
paragraphAlways(block) ==
    LET para == trim(block)
    IN  IF para = <<>> THEN <<>> ELSE OpenTag(P) \o breakLines(para) \o CloseTag(P)

\* the callback of paragraphs.map in Step 7
paragraph(block) ==
    LET para == trim(block)
    IN  IF para = <<>> THEN <<>>
        ELSE IF startsWithBlockTag(para)
        THEN (IF ~startsWithList(para) THEN breakLines(para) ELSE para)
        ELSE OpenTag(P) \o breakLines(para) \o CloseTag(P)

\* Step 7
paragraphs(text) ==
    LET blocks == splitParagraphs(text)
    IN  join([i \in DOMAIN blocks |-> paragraph(blocks[i])], <<LF>>)

\* the html after Step 6 of _parseMarkdown, for a text that is not empty
listsRestored(text) ==
    LET st == extractLists(replaceHeaders(escapeHtml(text)))
    IN  restoreLists(replaceInline("link", boldItalic(st.html)), st.listPlaceholders)

\* _parseMarkdown(text)
parseMarkdown(text) ==
    IF text = <<>> THEN <<>> ELSE paragraphs(listsRestored(text))
----------------------------------------------------------------------------
(* The texts handed to _parseMarkdown *)

\* the examples the specification names for the renderer
ScriptExample ==
    <<"<", "s", "c", "r", "i", "p", "t", ">", "a", "l", "e", "r", "t", "(", "1", ")",
      "<", "/", "s", "c", "r", "i", "p", "t", ">">>
HelloExample ==
    <<"h", "e", "l", "l", "o", SP, "w", "o", "r", "l", "d">>
ListExample ==
    <<"-", SP, "a", LF, "-", SP, "b", LF, LF, "c">>
ListInlineExample ==
    <<"-", SP, "*", "*", "b", "o", "l", "d", "*", "*", SP, "a", "n", "d", SP, "[", "x",
      "]", "(", "h", "t", "t", "p", ":", "/", "/", "e", ")">>

MdExamples == <<ScriptExample, HelloExample, ListExample, ListInlineExample>>

\* every text of at most MaxMdLen characters over MdChars
MaxMdLen == 5
MdChars == {"a", "*", SP, LF}
CharInputs == [kind : {"chars"}, meta : SeqsUpTo(MdChars, MaxMdLen)]

\* at most MaxMdLines lines, each one of MdLines, ended by \n or by \r\n (the last
\* line is not ended)
MaxMdLines == 3
MdLines ==
    {<<"-", SP, "a">>, <<"*", SP, "b">>, <<"1", ".", SP, "c">>, <<>>, <<"c">>,
     <<"#", SP, "h">>, <<"*", "d">>, <<"e", "*">>}
LineInputs ==
    [kind : {"lines"},
     meta : [lines : SeqsUpTo(MdLines, MaxMdLines), eol : {<<LF>>, <<CR, LF>>}]]

\* a link [text](url), both parts of at most MaxLinkPart characters over LinkChars
MaxLinkPart == 2
LinkChars == {QUOTE, "<", "*"}
LinkInputs ==
    [kind : {"link"},
     meta : [text : SeqsUpTo(LinkChars, MaxLinkPart),
             url : SeqsUpTo(LinkChars, MaxLinkPart)]]

\* every text of at most MaxEscLen characters over EscChars
MaxEscLen == 3
EscChars == {"<", ">", "&", "#", SP, "a"}
EscInputs == [kind : {"esc"}, meta : SeqsUpTo(EscChars, MaxEscLen)]

\* one item line "- content", the content made of at most MaxItemTokens of
\* ItemTokens, between a line before and a line after (either may be absent)
MaxItemTokens == 2
ItemTokens ==
    {<<"*", "*", "a", "*", "*">>, <<"*", "a", "a", "*">>,
     <<"[", "a", "]", "(", "u", ")">>, <<"*">>, <<SP>>}
LinesBefore == {<<>>, <<"*", "d">>, <<"[", "x">>}
LinesAfter == {<<>>, <<"e", "*">>, <<"]", "(", "u", ")">>}
ItemInputs ==
    [kind : {"item"},
     meta : [before : LinesBefore,
             content : SeqsUpTo(ItemTokens, MaxItemTokens),
             after : LinesAfter]]

\* the item line of an "item" input
ItemLine(in) == <<"-", SP>> \o Flatten(in.meta.content)

ExampleInputs == [kind : {"example"}, meta : DOMAIN MdExamples]

\* at most MaxTokenLines lines joined by \n, each an item line, a plain line or a
\* line that reads as a placeholder of Step 3
MaxTokenLines == 3
TokenLines ==
    {<<"-", SP, "a">>, <<"1", ".", SP, "b">>, <<"c">>, Placeholder(0), Placeholder(1)}
TokenInputs == [kind : {"token"}, meta : SeqsUpTo(TokenLines, MaxTokenLines) \ {<<>>}]

\* the text of an input
MdText(in) ==
    CASE in.kind = "example" -> MdExamples[in.meta]
      [] in.kind = "lines" -> Join(in.meta.lines, in.meta.eol)
      [] in.kind = "token" -> Join(in.meta, <<LF>>)
      [] in.kind = "link" ->
            <<"[">> \o in.meta.text \o <<"]", "(">> \o in.meta.url \o <<")">>
      [] in.kind = "item" ->
            (IF in.meta.before = <<>> THEN <<>> ELSE in.meta.before \o <<LF>>)
              \o ItemLine(in)
              \o (IF in.meta.after = <<>> THEN <<>> ELSE <<LF>> \o in.meta.after)
      [] OTHER -> in.meta

RenderInit ==
    /\ \/ mdInput \in ExampleInputs
       \/ mdInput \in CharInputs
       \/ mdInput \in LineInputs
       \/ mdInput \in LinkInputs
       \/ mdInput \in EscInputs
       \/ mdInput \in ItemInputs
       \/ mdInput \in TokenInputs
    /\ rendered = NotParsed
    /\ CsvIdle
    /\ DocsConstructed
    /\ CompareConstructed
    /\ UnwrapIdle
    /\ RootConstructed

\* _setContent(element, value): element.innerHTML = this._parseMarkdown(value || '')
SetContent ==
    /\ rendered = NotParsed
    /\ rendered' = <<parseMarkdown(MdText(mdInput))>>
    /\ UNCHANGED <<mdInput, csvVars, docsVars, compareVars, unwrapVars, rootVars>>

RenderNext == SetContent

SpecRender == RenderInit /\ [][RenderNext]_vars

\* the text set and the html made of it, once a cell's content has been set
Text == MdText(mdInput)
Html == rendered[1]

\* the pieces of markup _parseMarkdown writes that begin with < : the tags of
\* Steps 2 to 7 and the start of the anchor template
WrittenTagStarts ==
    {OpenTag(name) : name \in {HeaderName(n) : n \in 1..4} \cup {Ul, Ol, Li, P, Strong, Em}}
        \cup {CloseTag(name) :
                 name \in {HeaderName(n) : n \in 1..4} \cup {Ul, Ol, Li, P, Strong, Em}}
        \cup {Br, AnchorOpen, AnchorClose}

\* the pieces that end with > : the same tags, the anchor template ending with
\* its rel attribute
WrittenTagEnds == (WrittenTagStarts \ {AnchorOpen}) \cup {AnchorAttrs}

EscapedScript == Lt \o <<"s", "c", "r", "i", "p", "t">> \o Gt
ScriptTag == <<"<", "s", "c", "r", "i", "p", "t">>

\* C11: in the html made of any text, every < begins and every > ends a piece of
\* markup the renderer wrote itself, and every & begins one of &amp; &lt; &gt; , so
\* that a < > or & of the text is in the html only as its entity; the html of
\* "<script>alert(1)</script>" holds &lt;script&gt; and no <script tag.
C11_EscapingPrecedesMarkup ==
    rendered # NotParsed =>
        /\ \A p \in DOMAIN Html :
              /\ Html[p] = "<" => \E tag \in WrittenTagStarts : At(Html, p, tag)
              /\ Html[p] = ">" =>
                    \E tag \in WrittenTagEnds : At(Html, p - Len(tag) + 1, tag)
              /\ Html[p] = "&" => \E entity \in {Amp, Lt, Gt} : At(Html, p, entity)
        /\ Text = ScriptExample =>
              /\ includes(Html, EscapedScript)
              /\ ~includes(Html, ScriptTag)

\* the script example has been rendered, its tag escaped
C11_Witness ==
    /\ rendered # NotParsed
    /\ Text = ScriptExample
    /\ includes(Html, EscapedScript)

\* the tags without attributes that the output may hold
PlainTags == WrittenTagStarts \ {AnchorOpen}

\* an <a> tag starts at place p whose href value runs to the first double quote
\* after it, and that quote starts the rest of the template: the tag has the
\* attributes href, target and rel and no other
PlainAnchorAt(html, p) ==
    LET from == p + Len(AnchorOpen)
        quotes == {q \in from..Len(html) : html[q] = QUOTE}
    IN  /\ At(html, p, AnchorOpen)
        /\ quotes # {}
        /\ At(html, Least(quotes), AnchorAttrs)

\* C12: in the html made of any text, every tag is one of h1-h4, p, ul, ol, li,
\* strong, em, br, /a, or an <a> with exactly the attributes href, target and rel.
C12_OnlyKnownMarkup ==
    rendered # NotParsed =>
        \A p \in DOMAIN Html :
            Html[p] = "<" =>
                \/ \E tag \in PlainTags : At(Html, p, tag)
                \/ PlainAnchorAt(Html, p)

\* the element names of the tags the renderer writes
ElementNames ==
    {HeaderName(n) : n \in 1..4} \cup {Ul, Ol, Li, P, Strong, Em, <<"a">>, <<"b", "r">>}

\* the tag that starts at a < of the html, as [name, closing]; a < that starts no
\* tag of the renderer has the name <<>>
TagAt(html, p) ==
    IF \E name \in ElementNames : At(html, p, <<"<", "/">> \o name \o <<">">>)
    THEN [name |-> CHOOSE name \in ElementNames : At(html, p, <<"<", "/">> \o name \o <<">">>),
          closing |-> TRUE]
    ELSE IF At(html, p, AnchorOpen) THEN [name |-> <<"a">>, closing |-> FALSE]
    ELSE IF \E name \in ElementNames : At(html, p, OpenTag(name))
    THEN [name |-> CHOOSE name \in ElementNames : At(html, p, OpenTag(name)),
          closing |-> FALSE]
    ELSE [name |-> <<>>, closing |-> FALSE]

\* the tags of the html in order
TagsOf(html) ==
    Flatten([p \in DOMAIN html |-> IF html[p] = "<" THEN <<TagAt(html, p)>> ELSE <<>>])

\* the tags are properly nested: read in order with `open` the names of the
\* elements open so far (innermost last), a closing tag closes the innermost open
\* element, and no element is open at the end; <br> has no closing tag
RECURSIVE Nested(_, _)
Nested(tags, open) ==
    IF tags = <<>> THEN open = <<>>
    ELSE LET tag == Head(tags)
         IN  IF tag.name = <<>> THEN FALSE
             ELSE IF tag.name = <<"b", "r">> THEN ~tag.closing /\ Nested(Tail(tags), open)
             ELSE IF ~tag.closing THEN Nested(Tail(tags), Append(open, tag.name))
             ELSE /\ open # <<>>
                  /\ open[Len(open)] = tag.name
                  /\ Nested(Tail(tags), SubSeq(open, 1, Len(open) - 1))

WellFormed(html) == Nested(TagsOf(html), <<>>)

\* C13: the html made of any text is well formed: every tag opened is closed, and
\* the tags are properly nested.
C13_WellFormed == rendered # NotParsed => WellFormed(Html)

\* a block with each of its \n written as <br>
WithBreaks(block) == Join(split(block, LF), Br)

\* what the paragraph step is to make of one block of the html of Step 6
ExpectedBlock(block) ==
    LET para == trim(block)
        isList == At(para, 1, OpenTag(Ul)) \/ At(para, 1, OpenTag(Ol))
        isHeader == \E n \in 1..4 : At(para, 1, OpenTag(HeaderName(n)))
    IN  IF para = <<>> THEN <<>>
        ELSE IF isList THEN para
        ELSE IF isHeader THEN WithBreaks(para)
        ELSE <<"<", "p", ">">> \o WithBreaks(para) \o <<"<", "/", "p", ">">>

\* C14: the html of a text is made of the blocks between the runs of \n\n of the
\* html of Step 6, in order and joined by \n: a block that starts with <ul> or <ol>
\* as it is, a block that starts with a header with its \n as <br>, every other
\* non-empty block inside one <p>...</p> with its \n as <br>; the html of
\* "hello world" is <p>hello world</p>.
C14_ParagraphStep ==
    (rendered # NotParsed /\ Text # <<>>) =>
        LET blocks == splitParagraphs(listsRestored(Text))
        IN  /\ Html = Join([i \in DOMAIN blocks |-> ExpectedBlock(blocks[i])], <<LF>>)
            /\ Text = HelloExample => Html = <<"<", "p", ">">> \o HelloExample \o <<"<", "/", "p", ">">>

\* "hello world" has been rendered to one paragraph
C14_Witness ==
    /\ rendered # NotParsed
    /\ Text = HelloExample
    /\ Html = <<"<", "p", ">">> \o HelloExample \o <<"<", "/", "p", ">">>

\* the kind of one line taken by itself: "ul" for an item of an unordered list,
\* "ol" for an item of an ordered list, "none" for any other line
LineType(line) ==
    IF listItemAt("ul", line, 1) # NoMatch THEN "ul"
    ELSE IF listItemAt("ol", line, 1) # NoMatch THEN "ol"
    ELSE "none"

\* <li>content</li> for an item line
ItemOf(line) ==
    OpenTag(Li)
      \o processInlineFormatting(listItemAt(LineType(line), line, 1)[1].content)
      \o CloseTag(Li)

ListName(type) == IF type = "ul" THEN Ul ELSE Ol

\* the list markup the lines call for, from line i on, `open` being the type of
\* the list open so far ("none" when none is): one list for each maximal run of
\* item lines of one type, one <li> for each item line
RECURSIVE ExpectedLists(_, _, _)
ExpectedLists(lines, i, open) ==
    LET type == LineType(lines[i])
        closeOpen == IF open = "none" THEN <<>> ELSE <<CloseTag(ListName(open))>>
    IN  IF i > Len(lines) THEN closeOpen
        ELSE IF type = "none" THEN closeOpen \o ExpectedLists(lines, i + 1, "none")
        ELSE IF type = open THEN <<ItemOf(lines[i])>> \o ExpectedLists(lines, i + 1, type)
        ELSE closeOpen \o <<OpenTag(ListName(type)), ItemOf(lines[i])>>
               \o ExpectedLists(lines, i + 1, type)

\* the list markup of an html: its <ul>, </ul>, <ol>, </ol> tags and its
\* <li>...</li> elements, in order
ListMarkup(html) ==
    Flatten([p \in DOMAIN html |->
        IF \E tag \in {OpenTag(Ul), CloseTag(Ul), OpenTag(Ol), CloseTag(Ol)} : At(html, p, tag)
        THEN <<SubSeq(html, p, p + 3 + (IF html[p + 1] = "/" THEN 1 ELSE 0))>>
        ELSE IF At(html, p, OpenTag(Li))
        THEN LET ends == {q \in p..Len(html) : At(html, q, CloseTag(Li))}
             IN  IF ends = {} THEN <<SubSeq(html, p, Len(html))>>
                 ELSE <<SubSeq(html, p, Least(ends) + Len(CloseTag(Li)) - 1)>>
        ELSE <<>>])

ListExampleHtml ==
    Join(<<OpenTag(Ul), OpenTag(Li) \o <<"a">> \o CloseTag(Li),
           OpenTag(Li) \o <<"b">> \o CloseTag(Li), CloseTag(Ul),
           OpenTag(P) \o <<"c">> \o CloseTag(P)>>, <<LF>>)

\* C15: the html of a text made of lines holds, in order, one <ul> or <ol> for
\* each maximal run of item lines of one type, with one <li> for each item line of
\* the run, and no other list markup; the html of "- a\n- b\n\nc" is one <ul> of
\* two <li> and then <p>c</p>.
C15_ListGrouping ==
    rendered # NotParsed =>
        /\ mdInput.kind = "lines" =>
              ListMarkup(Html) = ExpectedLists(mdInput.meta.lines, 1, "none")
        /\ Text = ListExample => Html = ListExampleHtml

\* the same for the texts whose lines end with \n alone
C15_ListGroupingLf ==
    (rendered # NotParsed /\ mdInput.kind = "lines" /\ mdInput.meta.eol = <<LF>>) =>
        ListMarkup(Html) = ExpectedLists(mdInput.meta.lines, 1, "none")

\* the <li>...</li> elements of an html, in order
ListElements(html) == SelectSeq(ListMarkup(html), LAMBDA piece : At(piece, 1, OpenTag(Li)))

\* the lines of a text that are list items
ItemLines(text) ==
    {line \in Range(split(text, LF)) : LineType(TrimRight(line)) # "none"}

ListInlineExampleHtml ==
    Join(<<OpenTag(Ul),
           OpenTag(Li) \o OpenTag(Strong) \o <<"b", "o", "l", "d">> \o CloseTag(Strong)
             \o <<SP, "a", "n", "d", SP>>
             \o AnchorOpen \o <<"h", "t", "t", "p", ":", "/", "/", "e">> \o AnchorAttrs
             \o <<"x">> \o AnchorClose \o CloseTag(Li),
           CloseTag(Ul)>>, <<LF>>)

\* C16: every <li> of the html of a text holds the content of one item line of
\* the text with the bold, italic and link formatting applied to that content
\* alone; an item line (a marker, white space and a content that is not blank)
\* between two other lines gives one <ul> of one <li> of that kind whatever markup the lines around
\* it hold; the html of
\* "- **bold** and [x](http://e)" is one <li> with <strong>bold</strong> and
\* <a href="http://e" target="_blank" rel="noopener">x</a>.
C16_InlineInsideItems ==
    rendered # NotParsed =>
        /\ mdInput.kind = "lines" =>
              LET expected == {ItemOf(TrimRight(line)) : line \in ItemLines(Text)}
              IN  \A element \in Range(ListElements(Html)) : element \in expected
        /\ (mdInput.kind = "item" /\ trim(Flatten(mdInput.meta.content)) # <<>>) =>
              ListMarkup(Html) = <<OpenTag(Ul), ItemOf(ItemLine(mdInput)), CloseTag(Ul)>>
        /\ Text = ListInlineExample => Html = ListInlineExampleHtml

\* the example has been rendered: bold and link inside the one <li>
C16_Witness ==
    /\ rendered # NotParsed
    /\ Text = ListInlineExample
    /\ Html = ListInlineExampleHtml

\* the text is a letter and one span *x* , x not empty and made of letters and
\* spaces (the letter keeps the first asterisk from being a list marker)
IsSpan(text) ==
    /\ Len(text) >= 4
    /\ text[1] = "a"
    /\ text[2] = "*"
    /\ text[Len(text)] = "*"
    /\ \A i \in 3..(Len(text) - 1) : text[i] \in {"a", SP}

\* the x of a span *x*
SpanContent(text) == SubSeq(text, 3, Len(text) - 1)

\* <p>a<em>x</em></p>
EmphasisOf(x) == OpenTag(P) \o <<"a">> \o OpenTag(Em) \o x \o CloseTag(Em) \o CloseTag(P)

\* what the italic rule makes of the span x
ItalicRule(x) ==
    IF x[1] \notin WhiteSpace /\ x[Len(x)] \notin WhiteSpace
    THEN Html = EmphasisOf(x)
    ELSE Html = OpenTag(P) \o Text \o CloseTag(P)

\* C17: a span *x* (x without asterisk) is rendered as <em>x</em> exactly when
\* the first and the last character of x are not white space, a one-character x
\* included; otherwise the asterisks stay as text.
C17_ItalicRule ==
    (rendered # NotParsed /\ mdInput.kind = "chars" /\ IsSpan(Text)) =>
        ItalicRule(SpanContent(Text))

\* the same for the spans of two characters or more
C17_ItalicRuleFromTwo ==
    (rendered # NotParsed /\ mdInput.kind = "chars" /\ IsSpan(Text) /\ Len(Text) >= 5) =>
        ItalicRule(SpanContent(Text))

\* a text of white space only, the empty text included
Blank(text) == \A i \in DOMAIN text : text[i] \in WhiteSpace

\* C18: every text is rendered (to a string), and a text that is empty or made
\* of white space and blank lines only is rendered to the empty string.
C18_DegenerateIsEmpty ==
    rendered # NotParsed =>
        /\ Html \in Seq(STRING)
        /\ Blank(Text) => Html = <<>>

\* the same for the blank texts that hold no run of two \n
C18_BlankBlockIsEmpty ==
    (rendered # NotParsed /\ Blank(Text) /\ ~includes(Text, <<LF, LF>>)) => Html = <<>>
----------------------------------------------------------------------------
(* DocumentSummaryViewer._extractSummaryText (src/outputs/cost_report.md)  *)
(*                                                                         *)
(* A JS value is a record with a type: a string [type, str], a number      *)
(* [type, lit] (its literal), a boolean [type, bool], null [type], an      *)
(* array [type, items] or an object [type, keys, values] (its members in   *)
(* the order written).                                                     *)

JString(str) == [type |-> "string", str |-> str]
JNumber(lit) == [type |-> "number", lit |-> lit]
JBoolean(bool) == [type |-> "boolean", bool |-> bool]
JNull == [type |-> "null"]
JArray(items) == [type |-> "array", items |-> items]
JObject(keys, values) == [type |-> "object", keys |-> keys, values |-> values]

BACKSLASH == "\\"
\* the grave accent of a code fence, named: a TLA+ string cannot hold the character
BACKTICK == "GRAVE"

\* the white space JSON allows between tokens
JsonWhiteSpace == {SP, LF, CR, "\t"}

\* JSON.parse throws a SyntaxError
SyntaxError == [ok |-> FALSE, value |-> JNull, next |-> 0]

\* a value has been read, the text going on at place next
Parsed(value, next) == [ok |-> TRUE, value |-> value, next |-> next]

\* the character at place p, "" after the end of the text
CharAt(text, p) == IF p \in DOMAIN text THEN text[p] ELSE ""

\* the character an escape \c of a JSON string stands for, "" if there is no such
\* escape (\b and \f are named by their escapes; \uXXXX is not modelled, and no
\* modelled text holds it)
Unescaped(c) ==
    CASE c = QUOTE -> QUOTE
      [] c = BACKSLASH -> BACKSLASH
      [] c = "/" -> "/"
      [] c = "n" -> LF
      [] c = "r" -> CR
      [] c = "t" -> "\t"
      [] c = "b" -> "\\b"
      [] c = "f" -> "\f"
      [] OTHER -> ""

\* the characters of a JSON string from place i on, up to its closing quote; a
\* control character (here \n, \r, \t) may not stand unescaped in a string
RECURSIVE stringFrom(_, _, _)
stringFrom(text, i, str) ==
    LET c == CharAt(text, i)
    IN  IF c = "" \/ c \in {LF, CR, "\t"} THEN SyntaxError
        ELSE IF c = QUOTE THEN Parsed(str, i + 1)
        ELSE IF c = BACKSLASH
        THEN (IF Unescaped(CharAt(text, i + 1)) = "" THEN SyntaxError
              ELSE stringFrom(text, i + 2, Append(str, Unescaped(CharAt(text, i + 1)))))
        ELSE stringFrom(text, i + 1, Append(str, c))

\* the place after a JSON number that starts at place p, 0 if none does:
\* -? (0 | [1-9][0-9]*) (. [0-9]+)? ([eE] [+-]? [0-9]+)?
numberEnd(text, p) ==
    LET q == IF CharAt(text, p) = "-" THEN p + 1 ELSE p
        i == IF CharAt(text, q) = "0" THEN q + 1 ELSE SkipAll(text, q, Digits)
        j == IF CharAt(text, i) = "." THEN SkipAll(text, i + 1, Digits) ELSE i
        k == IF CharAt(text, j) \in {"e", "E"}
             THEN (IF CharAt(text, j + 1) \in {"+", "-"} THEN j + 2 ELSE j + 1)
             ELSE j
        n == IF k = j THEN j ELSE SkipAll(text, k, Digits)
    IN  IF i = q \/ (CharAt(text, i) = "." /\ j = i + 1) \/ (k # j /\ n = k) THEN 0
        ELSE n

\* the literals true, false and null
Literals ==
    {[lit |-> <<"t", "r", "u", "e">>, value |-> JBoolean(TRUE)],
     [lit |-> <<"f", "a", "l", "s", "e">>, value |-> JBoolean(FALSE)],
     [lit |-> <<"n", "u", "l", "l">>, value |-> JNull]}

RECURSIVE parseValue(_, _)
RECURSIVE membersFrom(_, _, _, _)
RECURSIVE elementsFrom(_, _, _)

\* the members of an object from place p on (after { or a comma), up to its }
membersFrom(text, p, keys, values) ==
    LET k == SkipAll(text, p, JsonWhiteSpace)
        key == stringFrom(text, k + 1, <<>>)
        colon == SkipAll(text, key.next, JsonWhiteSpace)
        value == parseValue(text, colon + 1)
        after == SkipAll(text, value.next, JsonWhiteSpace)
    IN  IF CharAt(text, k) # QUOTE \/ ~key.ok THEN SyntaxError
        ELSE IF CharAt(text, colon) # ":" \/ ~value.ok THEN SyntaxError
        ELSE IF CharAt(text, after) = COMMA
        THEN membersFrom(text, after + 1, Append(keys, key.value), Append(values, value.value))
        ELSE IF CharAt(text, after) = "}"
        THEN Parsed(JObject(Append(keys, key.value), Append(values, value.value)), after + 1)
        ELSE SyntaxError

\* the elements of an array from place p on (after [ or a comma), up to its ]
elementsFrom(text, p, items) ==
    LET value == parseValue(text, p)
        after == SkipAll(text, value.next, JsonWhiteSpace)
    IN  IF ~value.ok THEN SyntaxError
        ELSE IF CharAt(text, after) = COMMA
        THEN elementsFrom(text, after + 1, Append(items, value.value))
        ELSE IF CharAt(text, after) = "]"
        THEN Parsed(JArray(Append(items, value.value)), after + 1)
        ELSE SyntaxError

\* the JSON value that starts at place p, white space before it skipped
parseValue(text, p) ==
    LET v == SkipAll(text, p, JsonWhiteSpace)
        c == CharAt(text, v)
        first == SkipAll(text, v + 1, JsonWhiteSpace)
        str == stringFrom(text, v + 1, <<>>)
    IN  IF c = "{"
        THEN (IF CharAt(text, first) = "}" THEN Parsed(JObject(<<>>, <<>>), first + 1)
              ELSE membersFrom(text, v + 1, <<>>, <<>>))
        ELSE IF c = "["
        THEN (IF CharAt(text, first) = "]" THEN Parsed(JArray(<<>>), first + 1)
              ELSE elementsFrom(text, v + 1, <<>>))
        ELSE IF c = QUOTE
        THEN (IF str.ok THEN Parsed(JString(str.value), str.next) ELSE SyntaxError)
        ELSE IF \E l \in Literals : At(text, v, l.lit)
        THEN LET l == CHOOSE l \in Literals : At(text, v, l.lit)
             IN  Parsed(l.value, v + Len(l.lit))
        ELSE IF numberEnd(text, v) # 0
        THEN Parsed(JNumber(SubSeq(text, v, numberEnd(text, v) - 1)), numberEnd(text, v))
        ELSE SyntaxError

\* the value parsed at the start of a text stands for the text when nothing but
\* white space follows it
wholeText(value, text) ==
    IF value.ok /\ SkipAll(text, value.next, JsonWhiteSpace) = Len(text) + 1
    THEN value
    ELSE SyntaxError

\* JSON.parse(text): one value and nothing but white space after it
JSONparse(text) == wholeText(parseValue(text, 1), text)

JUndefined == [type |-> "undefined"]

\* whether a value is truthy: if (value)
Truthy(value) ==
    CASE value.type = "string" -> value.str # <<>>
      [] value.type = "number" ->
            \E i \in DOMAIN value.lit :
                /\ value.lit[i] \in Digits \ {"0"}
                /\ \A j \in 1..i : value.lit[j] \notin {"e", "E"}
      [] value.type = "boolean" -> value.bool
      [] value.type = "null" -> FALSE
      [] value.type = "undefined" -> FALSE
      [] OTHER -> TRUE

\* object[key] on an object JSON.parse made: the value of the last member of
\* that name, undefined if there is none
Property(object, key) ==
    LET places == {i \in DOMAIN object.keys : object.keys[i] = key}
    IN  IF places = {} THEN JUndefined ELSE object.values[Greatest(places)]

DocumentSummary ==
    <<"d", "o", "c", "u", "m", "e", "n", "t", "_", "s", "u", "m", "m", "a", "r", "y">>

\* '```' and '```json'
Fence == <<BACKTICK, BACKTICK, BACKTICK>>
JsonFence == Fence \o <<"j", "s", "o", "n">>

\* String.prototype.startsWith, endsWith
startsWith(str, prefix) == At(str, 1, prefix)
endsWith(str, suffix) == At(str, Len(str) - Len(suffix) + 1, suffix)

\* the for loop that looks for the matching closing brace, from place i on with
\* the depth so far: the place after that brace (endIdx), or start when the loop
\* ends without a break
RECURSIVE matchingBrace(_, _, _, _)
matchingBrace(cleaned, start, i, depth) ==
    IF i > Len(cleaned) THEN start
    ELSE IF cleaned[i] = "{" THEN matchingBrace(cleaned, start, i + 1, depth + 1)
    ELSE IF cleaned[i] = "}"
    THEN (IF depth - 1 = 0 THEN i + 1 ELSE matchingBrace(cleaned, start, i + 1, depth - 1))
    ELSE matchingBrace(cleaned, start, i + 1, depth)

\* if (data.document_summary) return data.document_summary, on what JSON.parse
\* gave (a SyntaxError is caught)
summaryOf(data) ==
    IF ~data.ok THEN [returned |-> FALSE]
    ELSE IF data.value.type = "object" /\ Truthy(Property(data.value, DocumentSummary))
    THEN [returned |-> TRUE, value |-> Property(data.value, DocumentSummary)]
    ELSE [returned |-> FALSE]

\* the body of the try block: [returned |-> TRUE, value] when it returns
\* data.document_summary, [returned |-> FALSE] when it falls through or throws
tryExtract(text) ==
    LET trimmed == trim(text)
        unfenced == IF startsWith(trimmed, JsonFence) THEN SubSeq(trimmed, 8, Len(trimmed))
                    ELSE IF startsWith(trimmed, Fence) THEN SubSeq(trimmed, 4, Len(trimmed))
                    ELSE trimmed
        cleaned == trim(IF endsWith(unfenced, Fence)
                        THEN SubSeq(unfenced, 1, Len(unfenced) - 3)
                        ELSE unfenced)
        braces == {i \in DOMAIN cleaned : cleaned[i] = "{"}
        startIdx == Least(braces)
        endIdx == matchingBrace(cleaned, startIdx, startIdx, 0)
    IN  IF ~(startsWith(trimmed, <<"{">>) \/ startsWith(trimmed, Fence))
        THEN [returned |-> FALSE]
        ELSE IF braces = {} THEN [returned |-> FALSE]
        ELSE summaryOf(JSONparse(SubSeq(cleaned, startIdx, endIdx - 1)))

\* an _extractSummaryText whose last line returns the trimmed text
extractOrTrimmed(text) ==
    IF text = <<>> THEN JString(<<>>)
    ELSE IF tryExtract(text).returned THEN tryExtract(text).value
    ELSE JString(trim(text))

\* what is returned after the try block: the document_summary, or the text
returnedOr(tried, text) == IF tried.returned THEN tried.value ELSE JString(text)

\* _extractSummaryText(text)
extractSummaryText(text) ==
    IF text = <<>> THEN JString(<<>>) ELSE returnedOr(tryExtract(text), text)
----------------------------------------------------------------------------
(* The summaries handed to _extractSummaryText *)

\* every text of at most MaxPlainLen characters over PlainChars
MaxPlainLen == 4
PlainChars == {"a", "{", "}", BACKTICK, SP}
PlainInputs == [kind : {"plain"}, meta : SeqsUpTo(PlainChars, MaxPlainLen)]

\* how a JSON object is handed over: as it is, or inside a code fence
Fences == {"raw", "json", "bare"}

\* a JSON object whose document_summary is a text of at most MaxSummaryLen
\* characters over SummaryChars, written as JSON.stringify writes it
MaxSummaryLen == 3
SummaryChars == {"a", "{", "}", QUOTE, BACKSLASH, LF}
EnvelopeInputs ==
    [kind : {"envelope"},
     meta : [fence : Fences, summary : SeqsUpTo(SummaryChars, MaxSummaryLen)]]

\* an object of one member, well formed or not, and what follows it
ValueTexts ==
    {<<QUOTE, "a", QUOTE>>, <<QUOTE, QUOTE>>, <<"0">>, <<"1">>, <<"n", "u", "l", "l">>,
     <<"t", "r", "u", "e">>, <<"f", "a", "l", "s", "e">>, <<"{", "}">>,
     <<"{", QUOTE, "a", QUOTE, ":", "1", "}">>, <<"[", "1", "]">>, <<"a">>,
     <<QUOTE, "a">>, <<>>}
Tails == {<<>>, <<"}">>, <<SP, "x">>}
ObjectInputs ==
    [kind : {"object"},
     meta : [fence : Fences, key : {DocumentSummary, <<"k">>}, value : ValueTexts,
             tail : Tails]]

\* the fenced example the specification names: the summary "hi" in a json fence
FencedExample == [kind |-> "envelope", meta |-> [fence |-> "json", summary |-> <<"h", "i">>]]

\* JSON.stringify of a string
quote(str) ==
    <<QUOTE>>
      \o Flatten([i \in DOMAIN str |->
             CASE str[i] = QUOTE -> <<BACKSLASH, QUOTE>>
               [] str[i] = BACKSLASH -> <<BACKSLASH, BACKSLASH>>
               [] str[i] = LF -> <<BACKSLASH, "n">>
               [] str[i] = CR -> <<BACKSLASH, "r">>
               [] OTHER -> <<str[i]>>])
      \o <<QUOTE>>

\* a text inside a code fence, or as it is
Fenced(fence, text) ==
    CASE fence = "json" -> JsonFence \o <<LF>> \o text \o <<LF>> \o Fence
      [] fence = "bare" -> Fence \o <<LF>> \o text \o <<LF>> \o Fence
      [] OTHER -> text

\* {"document_summary":"..."}
Envelope(summary) ==
    <<"{">> \o quote(DocumentSummary) \o <<":">> \o quote(summary) \o <<"}">>

\* the text of a summary input
SummaryText(in) ==
    CASE in.kind = "envelope" -> Fenced(in.meta.fence, Envelope(in.meta.summary))
      [] in.kind = "object" ->
            Fenced(in.meta.fence,
                   <<"{">> \o quote(in.meta.key) \o <<":">> \o in.meta.value \o <<"}">>
                     \o in.meta.tail)
      [] OTHER -> in.meta

UnwrapInit ==
    /\ \/ summaryInput \in PlainInputs
       \/ summaryInput \in EnvelopeInputs
       \/ summaryInput \in ObjectInputs
       \/ summaryInput = FencedExample
    /\ unwrapped = NotParsed
    /\ summaryHtml = NotParsed
    /\ CsvIdle
    /\ DocsConstructed
    /\ CompareConstructed
    /\ RenderIdle
    /\ RootConstructed

\* _parseMarkdown on a value of any type: '' for a falsy one; text.replace is a
\* function only of a string, on any other value the call throws a TypeError
parseMarkdownOf(value) ==
    IF ~Truthy(value) THEN [threw |-> FALSE, html |-> <<>>]
    ELSE IF value.type = "string"
    THEN [threw |-> FALSE, html |-> parseMarkdown(value.str)]
    ELSE [threw |-> TRUE, html |-> <<>>]

\* const summaryText = this._extractSummaryText(...);
\* summary.innerHTML = this._parseMarkdown(summaryText)
ExtractSummaryText ==
    /\ unwrapped = NotParsed
    /\ unwrapped' = <<extractSummaryText(SummaryText(summaryInput))>>
    /\ summaryHtml' = <<parseMarkdownOf(unwrapped'[1])>>
    /\ UNCHANGED <<summaryInput, csvVars, docsVars, compareVars, renderVars, rootVars>>

UnwrapNext == ExtractSummaryText

SpecUnwrap == UnwrapInit /\ [][UnwrapNext]_vars

\* the summary handed over and what _extractSummaryText returned for it
Summary == SummaryText(summaryInput)
Extracted == unwrapped[1]

\* the braces of a text up to place i: the { less the }
BraceDepth(text, i) ==
    Cardinality({j \in 1..i : text[j] = "{"}) - Cardinality({j \in 1..i : text[j] = "}"})

\* the braces of a text pair up: no } before its { , and none left open
BracesPaired(text) ==
    /\ \A i \in DOMAIN text : BraceDepth(text, i) >= 0
    /\ BraceDepth(text, Len(text)) = 0

\* C19: a JSON object whose document_summary is the text s, handed over as it
\* is or inside a json code fence, is unwrapped to s whatever characters s holds;
\* a plain text is returned unchanged.
C19_EnvelopeUnwrap ==
    unwrapped # NotParsed =>
        /\ (summaryInput.kind = "envelope" /\ summaryInput.meta.fence \in {"raw", "json"}) =>
              Extracted = JString(summaryInput.meta.summary)
        /\ summaryInput.kind = "plain" => Extracted = JString(Summary)

\* the same for the summaries that are not empty and whose braces pair up, in
\* any fence
C19_EnvelopeUnwrapPaired ==
    unwrapped # NotParsed =>
        /\ (/\ summaryInput.kind = "envelope"
            /\ summaryInput.meta.summary # <<>>
            /\ BracesPaired(summaryInput.meta.summary)) =>
              Extracted = JString(summaryInput.meta.summary)
        /\ summaryInput.kind = "plain" => Extracted = JString(Summary)

\* the text holds no { : no JSON object is found
NoObject(text) == "{" \notin Range(text)

\* the braces from the first { of the text on never pair up
NeverBalanced(text) ==
    /\ ~NoObject(text)
    /\ LET first == Least({i \in DOMAIN text : text[i] = "{"})
       IN  \A i \in first..Len(text) :
               BraceDepth(SubSeq(text, first, Len(text)), i - first + 1) > 0

\* the member values that are not JSON
Malformed == {<<"a">>, <<QUOTE, "a">>, <<>>}

\* C20: _extractSummaryText returns a value for every text, and returns the
\* text itself, character for character, when the text holds no { , when its
\* braces never pair up, when the object is not JSON, and when the object has no
\* document_summary.
C20_FailureReturnsInput ==
    unwrapped # NotParsed =>
        /\ Extracted.type \in {"string", "number", "boolean", "array", "object"}
        /\ (NoObject(Summary) \/ NeverBalanced(Summary)) => Extracted = JString(Summary)
        /\ (/\ summaryInput.kind = "object"
            /\ \/ summaryInput.meta.value \in Malformed
               \/ summaryInput.meta.key # DocumentSummary) =>
              Extracted = JString(Summary)

\* an object whose one member is not JSON, in a json fence, has been handed over
\* and has come back as it was
C20_Witness ==
    /\ unwrapped # NotParsed
    /\ summaryInput.kind = "object"
    /\ summaryInput.meta.fence = "json"
    /\ summaryInput.meta.key = DocumentSummary
    /\ summaryInput.meta.value = <<"a">>
    /\ Extracted = JString(Summary)
----------------------------------------------------------------------------
(* CSVComparisonViewer: uploads, the row dropdown and the keyboard (src/app.js) *)

\* row['sam-description'] || row['sweetspot-summary'] || row['highergov-summary']
hasContent(row) ==
    \/ row[SamDescription] # <<>>
    \/ row[SweetspotSummary] # <<>>
    \/ row[HighergovSummary] # <<>>

NoThrow == [threw |-> FALSE, message |-> ""]

\* validateData as it would be if it accepted whatever parseCSV returns
validateNothing(parsedData) == NoThrow

\* validateData(data): the Error it throws, or nothing
validateData(parsedData) ==
    IF Len(parsedData) = 0
    THEN [threw |-> TRUE, message |-> "No valid data rows found in CSV"]
    ELSE IF ~\E i \in DOMAIN parsedData : hasContent(parsedData[i])
    THEN [threw |-> TRUE, message |-> "No rows with content found in CSV"]
    ELSE NoThrow

\* the try block of handleFileUpload on the text of a file: what reaches the catch,
\* or the parsedData that is assigned to this.data
tryUpload(text) ==
    LET parsedData == parseCSV(text)
    IN  IF parsedData.threw THEN [threw |-> TRUE, message |-> parsedData.message, data |-> <<>>]
        ELSE IF validateData(parsedData.data).threw
        THEN [threw |-> TRUE, message |-> validateData(parsedData.data).message, data |-> <<>>]
        ELSE [threw |-> FALSE, message |-> "", data |-> parsedData.data]

ChooseARow == <<"C", "h", "o", "o", "s", "e", " ", "a", " ", "r", "o", "w", ".", ".", ".">>
RowPrefix == <<"R", "o", "w", " ">>
EmptyMark == <<" ", "(", "e", "m", "p", "t", "y", ")">>

\* renderRowDropdown(): the placeholder option and one option for each row of data
renderRowDropdown(rows) ==
    <<[value |-> <<>>, textContent |-> ChooseARow]>>
        \o [i \in DOMAIN rows |->
                [value |-> Decimal(i - 1),
                 textContent |-> RowPrefix \o Decimal(i)
                                     \o (IF hasContent(rows[i]) THEN <<>> ELSE EmptyMark)]]

NoContentAvailable == <<"N", "o", " ", "c", "o", "n", "t", "e", "n", "t", " ", "a", "v", "a", "i", "l", "a", "b", "l", "e">>
ViewSource == <<"V", "i", "e", "w", " ", "S", "o", "u", "r", "c", "e">>
NoUrl == <<"N", "o", " ", "U", "R", "L">>

\* updateColumn(column, content, url)
updateColumn(content, url) ==
    [content |-> IF content # <<>> THEN content ELSE NoContentAvailable,
     href |-> IF url # <<>> /\ trim(url) # <<>> THEN url ELSE <<"#">>,
     link |-> IF url # <<>> /\ trim(url) # <<>> THEN ViewSource ELSE NoUrl]

\* selectRow(index) on the data rows
selectRow(rows, index) ==
    IF index < 0 \/ index >= Len(rows)
    THEN UNCHANGED <<currentRowIndex, rowSelectValue, columnContent>>
    ELSE /\ currentRowIndex' = index
         /\ rowSelectValue' = Decimal(index)
         /\ columnContent' =
                <<updateColumn(rows[index + 1][SamDescription], rows[index + 1][SamUrl]),
                  updateColumn(rows[index + 1][SweetspotSummary], rows[index + 1][SweetspotUrl]),
                  updateColumn(rows[index + 1][HighergovSummary], rows[index + 1][HighergovUrl])>>

\* showError(message); its setTimeout is the step HideErrorTimeout
showError(message) ==
    /\ errorMessage' = message
    /\ errorDisplay' = "block"

\* hideError()
hideError ==
    /\ errorDisplay' = "none"
    /\ UNCHANGED errorMessage

\* event.key of a keydown, Enter standing for the keys without a case
Keys == {"ArrowUp", "ArrowDown", "Home", "End", "Enter"}

NoRow == -1

\* the switch as it would be if End asked for the row at data.length
keyTargetPastLast(key, rows, current) ==
    CASE key = "ArrowUp" -> IF current > 0 THEN current - 1 ELSE NoRow
      [] key = "ArrowDown" -> IF current < Len(rows) - 1 THEN current + 1 ELSE NoRow
      [] key = "Home" -> 0
      [] key = "End" -> Len(rows)
      [] OTHER -> NoRow

\* the switch of handleKeyboardNavigation: the index handed to selectRow, or NoRow
keyTarget(key, rows, current) ==
    CASE key = "ArrowUp" -> IF current > 0 THEN current - 1 ELSE NoRow
      [] key = "ArrowDown" -> IF current < Len(rows) - 1 THEN current + 1 ELSE NoRow
      [] key = "Home" -> 0
      [] key = "End" -> Len(rows) - 1
      [] OTHER -> NoRow

----------------------------------------------------------------------------
(* The files uploaded to the root viewer *)

\* the most data rows of an uploaded file
MaxUploadRows == 2

\* the most reads of readFile in flight at once
MaxPendingReads == 2

\* a data line with every cell filled, with the three urls only, with six empty
\* cells, and with five cells
RowKinds == {"full", "urls", "blank", "short"}

UploadLine(kind) ==
    CASE kind = "full" -> <<"a", ",", "a", ",", "a", ",", "a", ",", "a", ",", "a">>
      [] kind = "urls" -> <<",", "u", ",", ",", "u", ",", ",", "u">>
      [] kind = "blank" -> <<",", ",", ",", ",", ",">>
      [] kind = "short" -> <<"a", ",", "a", ",", "a", ",", "a", ",", "a">>

Without(s, k) == SubSeq(s, 1, k - 1) \o SubSeq(s, k + 1, Len(s))

\* a file: which required column its header leaves out (0: none), and its data lines
\* the required header goes with every choice of lines, a header that lacks a
\* column with five-cell lines, which are as wide as it is
UploadFiles ==
    [lacking : {0}, rows : SeqsUpTo(RowKinds, MaxUploadRows)]
        \cup [lacking : DOMAIN requiredHeaders, rows : SeqsUpTo({"short"}, MaxUploadRows)]

Uploads == SetToSeq(UploadFiles)

UploadHeader(file) ==
    IF file.lacking = 0 THEN requiredHeaders ELSE Without(requiredHeaders, file.lacking)

UploadText(file) ==
    FileText(<<Join(UploadHeader(file), <<COMMA>>)>>
                 \o [i \in DOMAIN file.rows |-> UploadLine(file.rows[i])],
             <<LF>>, FALSE)

\* the try block of handleFileUpload for each file
Uploaded == Tabulated([n \in DOMAIN Uploads |-> tryUpload(UploadText(Uploads[n]))])

----------------------------------------------------------------------------
(* The root viewer's handlers *)

RootInit ==
    /\ CsvIdle
    /\ DocsConstructed
    /\ CompareConstructed
    /\ RenderIdle
    /\ UnwrapIdle
    /\ RootConstructed

\* handleFileUpload with a file whose name does not end in .csv
UploadWrongName ==
    /\ showError("Please select a CSV file")
    /\ UNCHANGED <<rootData, currentRowIndex, rowOptions, rowSelectValue, columnContent,
                   mainDisplay, pendingReads>>
    /\ UNCHANGED <<csvVars, docsVars, compareVars, renderVars, unwrapVars>>

\* handleFileUpload with a .csv file, up to `await this.readFile(file)`
UploadStart ==
    /\ pendingReads < MaxPendingReads
    /\ pendingReads' = pendingReads + 1
    /\ UNCHANGED <<rootData, currentRowIndex, rowOptions, rowSelectValue, columnContent,
                   mainDisplay, errorMessage, errorDisplay>>
    /\ UNCHANGED <<csvVars, docsVars, compareVars, renderVars, unwrapVars>>

\* a read resolves with the text of file n: the rest of the try block, with
\* displayData (renderRowDropdown, selectRow(0)) and hideError, or the catch
ReadDone(n) ==
    /\ pendingReads > 0
    /\ pendingReads' = pendingReads - 1
    /\ IF Uploaded[n].threw
       THEN /\ showError(Uploaded[n].message)
            /\ UNCHANGED <<rootData, currentRowIndex, rowOptions, rowSelectValue,
                           columnContent, mainDisplay>>
       ELSE /\ rootData' = Uploaded[n].data
            /\ mainDisplay' = "flex"
            /\ rowOptions' = renderRowDropdown(Uploaded[n].data)
            /\ selectRow(Uploaded[n].data, 0)
            /\ hideError
    /\ UNCHANGED <<csvVars, docsVars, compareVars, renderVars, unwrapVars>>

\* a read rejects (reader.onerror): the catch
ReadFailed ==
    /\ pendingReads > 0
    /\ pendingReads' = pendingReads - 1
    /\ showError("Failed to read file")
    /\ UNCHANGED <<rootData, currentRowIndex, rowOptions, rowSelectValue, columnContent,
                   mainDisplay>>
    /\ UNCHANGED <<csvVars, docsVars, compareVars, renderVars, unwrapVars>>

\* the user picks option o of rowSelect: handleRowSelection; parseInt of the
\* placeholder's empty value is NaN
HandleRowSelection(o) ==
    /\ o \in DOMAIN rowOptions
    /\ IF rowOptions[o].value = <<>>
       THEN /\ rowSelectValue' = <<>>
            /\ UNCHANGED <<currentRowIndex, columnContent>>
       ELSE selectRow(rootData, parseInt(rowOptions[o].value))
    /\ UNCHANGED <<rootData, rowOptions, mainDisplay, errorMessage, errorDisplay,
                   pendingReads>>
    /\ UNCHANGED <<csvVars, docsVars, compareVars, renderVars, unwrapVars>>

\* a keydown on the document: handleKeyboardNavigation
HandleKeyboardNavigation(key) ==
    /\ IF Len(rootData) = 0 \/ keyTarget(key, rootData, currentRowIndex) = NoRow
       THEN UNCHANGED <<currentRowIndex, rowSelectValue, columnContent>>
       ELSE selectRow(rootData, keyTarget(key, rootData, currentRowIndex))
    /\ UNCHANGED <<rootData, rowOptions, mainDisplay, errorMessage, errorDisplay,
                   pendingReads>>
    /\ UNCHANGED <<csvVars, docsVars, compareVars, renderVars, unwrapVars>>

\* the timer set by showError fires: hideError. While the message is shown the
\* timer of the last showError is still to fire; on a hidden message it changes nothing.
HideErrorTimeout ==
    /\ errorDisplay = "block"
    /\ hideError
    /\ UNCHANGED <<rootData, currentRowIndex, rowOptions, rowSelectValue, columnContent,
                   mainDisplay, pendingReads>>
    /\ UNCHANGED <<csvVars, docsVars, compareVars, renderVars, unwrapVars>>

RootNext ==
    \/ UploadWrongName
    \/ UploadStart
    \/ \E n \in DOMAIN Uploads : ReadDone(n)
    \/ ReadFailed
    \/ \E o \in DOMAIN rowOptions : HandleRowSelection(o)
    \/ \E key \in Keys : HandleKeyboardNavigation(key)
    \/ HideErrorTimeout

SpecRoot == RootInit /\ [][RootNext]_vars

----------------------------------------------------------------------------
(* Claims about the root viewer *)

\* the header of the file lacks one of the six required columns
LacksColumn(file) ==
    \E h \in Range(requiredHeaders) : h \notin Range(UploadHeader(file))

\* no line of the file is a data row of the header's width with a text column filled
NoValidRow(file) == \A i \in DOMAIN file.rows : file.rows[i] # "full"

\* for each file, whether the claim says it is rejected
ToReject ==
    Tabulated([n \in DOMAIN Uploads |-> LacksColumn(Uploads[n]) \/ NoValidRow(Uploads[n])])

RejectionMessages ==
    {"CSV file must contain at least a header and one data row",
     "Missing required columns",
     "No valid data rows found in CSV",
     "No rows with content found in CSV"}

\* C21: an upload whose header lacks one of the six required columns, or that
\* has no valid data row, ends with the error message shown and with data and
\* currentRowIndex (and the dropdown and the columns) left as they were.
C21_RejectedUploadKeepsData ==
    [][\A n \in DOMAIN Uploads :
           (ToReject[n] /\ ReadDone(n))
               => /\ errorDisplay' = "block"
                  /\ errorMessage' \in RejectionMessages
                  /\ UNCHANGED <<rootData, currentRowIndex, rowOptions, rowSelectValue,
                                 columnContent>>]_vars

\* a file was rejected for its header while the second row of an earlier file is shown
C21_Witness ==
    /\ errorDisplay = "block"
    /\ errorMessage = "Missing required columns"
    /\ Len(rootData) = 2
    /\ currentRowIndex = 1

\* the row a key leads to from row current of n rows, as the claim has it
KeyMovesTo(key, current, n) ==
    CASE key = "ArrowUp" -> IF current = 0 THEN current ELSE current - 1
      [] key = "ArrowDown" -> IF current = n - 1 THEN current ELSE current + 1
      [] key = "Home" -> 0
      [] key = "End" -> n - 1

\* C22: with data loaded 0 <= currentRowIndex < data.length in every reachable
\* state; there ArrowUp and ArrowDown move one row and stop at the first and the
\* last row, Home and End select the first and the last row, the dropdown and
\* the columns following the index; with no data loaded a key changes nothing.
C22_KeyboardNavigation ==
    /\ rootData # <<>> => (0 <= currentRowIndex /\ currentRowIndex < Len(rootData))
    /\ \A key \in {"ArrowUp", "ArrowDown", "Home", "End"} :
           ENABLED (/\ HandleKeyboardNavigation(key)
                    /\ IF rootData = <<>> THEN UNCHANGED vars
                       ELSE /\ currentRowIndex'
                                  = KeyMovesTo(key, currentRowIndex, Len(rootData))
                            /\ currentRowIndex' # currentRowIndex
                                   => /\ rowSelectValue' = Decimal(currentRowIndex')
                                      /\ columnContent'[1].content
                                             \in {rootData[currentRowIndex' + 1][SamDescription],
                                                  NoContentAvailable})

\* the last of two rows is selected, the dropdown showing its index
C22_Witness ==
    /\ Len(rootData) = 2
    /\ currentRowIndex = 1
    /\ rowSelectValue = <<"1">>

\* the data lines of a file that have nothing in the three text columns
TextlessLines(file) == {i \in DOMAIN file.rows : file.rows[i] \in {"urls", "blank"}}

\* the options of the dropdown that are marked (empty)
EmptyOptions(options) ==
    {o \in DOMAIN options : endsWith(options[o].textContent, EmptyMark)}

\* C23: when a file is accepted, each of its data rows without content in the
\* three text columns has an option marked (empty) in the dropdown, and the
\* option's value is the index of a row of data, so that it can be selected.
C23_EmptyRowsListed ==
    [][\A n \in DOMAIN Uploads :
           (ReadDone(n) /\ ~Uploaded[n].threw)
               => /\ Cardinality(EmptyOptions(rowOptions'))
                         = Cardinality(TextlessLines(Uploads[n]))
                  /\ \A o \in EmptyOptions(rowOptions') :
                         parseInt(rowOptions'[o].value) < Len(rootData')]_vars

\* the rows of data without content in the three text columns are the options
\* marked (empty), and picking one of them selects its row
C23_KeptEmptyRowsListed ==
    /\ Len(rowOptions) = IF rootData = <<>> THEN 0 ELSE Len(rootData) + 1
    /\ \A i \in DOMAIN rootData :
           /\ (i + 1 \in EmptyOptions(rowOptions)) <=> ~hasContent(rootData[i])
           /\ ENABLED (HandleRowSelection(i + 1) /\ currentRowIndex' = i - 1)

----------------------------------------------------------------------------
(* Claims about the document viewer's search and loads *)

\* the cell of the document under the column contains k, letter case apart
FieldContains(doc, column, k) ==
    /\ column \in DOMAIN doc
    /\ includes(toLowerCase(doc[column]), toLowerCase(k))

\* the documents the claim keeps for the text typed into the search box
ClaimedSearch(documents, value) ==
    LET k == trim(value)
    IN  IF k = <<>> THEN documents
        ELSE SelectSeq(documents,
                       LAMBDA doc : \/ FieldContains(doc, Filename, k)
                                    \/ FieldContains(doc, DetectedDocType, k)
                                    \/ FieldContains(doc, SummaryColumn, k))

CurrentDocuments == MapGetOr(documentsByOpportunity, currentOpportunity[1], <<>>)

\* C24: with an opportunity selected, a search for a non-empty keyword k leaves in
\* filteredDocuments exactly the documents of the opportunity whose filename,
\* detected document type or summary contains k, letter case apart, in their
\* order; an empty keyword leaves all the documents of the opportunity.
C24_SearchFilters ==
    currentOpportunity # Null =>
        \A value \in DocSearchValues :
            ENABLED (/\ DocApplySearch(value)
                     /\ filteredDocuments' = ClaimedSearch(CurrentDocuments, value))

\* a document with the three columns
Described3(doc) == {Filename, DetectedDocType, SummaryColumn} \subseteq DOMAIN doc

\* the same for documents that have the three columns and a keyword of one word
C24_SearchFiltersOneWord ==
    (/\ currentOpportunity # Null
     /\ \A i \in DOMAIN CurrentDocuments : Described3(CurrentDocuments[i]))
        => \A value \in DocSearchValues :
               ~includes(trim(value), <<SP>>)
                   => ENABLED (/\ DocApplySearch(value)
                               /\ filteredDocuments'
                                      = ClaimedSearch(CurrentDocuments, value))

\* a search has left one of two documents
C24_OneWordWitness ==
    /\ docSearchValue = <<"A", SP>>
    /\ Len(CurrentDocuments) = 2
    /\ Len(filteredDocuments) = 1

\* currentOpportunity is null or a key of the Map, and filteredDocuments holds
\* documents of the current opportunity only
SelectionConsistent ==
    /\ currentOpportunity # Null => currentOpportunity[1] \in DOMAIN documentsByOpportunity
    /\ \A i \in DOMAIN filteredDocuments :
           /\ currentOpportunity # Null
           /\ filteredDocuments[i] \in Range(CurrentDocuments)

\* C27: in every reachable state currentOpportunity is null or a key of
\* documentsByOpportunity and the elements of filteredDocuments are documents of
\* documentsByOpportunity[currentOpportunity]; a load that is rejected because no
\* row has a sam-url leaves the three fields unchanged (a load rejected for
\* having no rows changes nothing at all).
C27_SelectionConsistent ==
    /\ []SelectionConsistent
    /\ [][(docFile' # docFile /\ groupByOpportunity(parseCsv(DocText(docFile'[1]))) = EmptyMap)
              => UNCHANGED <<documentsByOpportunity, currentOpportunity,
                             filteredDocuments>>]_vars

\* the same while the Map holds a group, that is until a load is rejected for
\* its sam-url column and again from the next accepted load
C27_ConsistentWhileGrouped ==
    documentsByOpportunity # EmptyMap => SelectionConsistent

----------------------------------------------------------------------------
(* Claims about empty lines in a file *)

\* C25: an empty line put into a table before the header, between two rows or
\* after the last row changes neither the header _parseCsv takes nor the Records
\* it returns, for a header of any width.
C25_BlankLinesTolerated ==
    blankTable # NotParsed => blankTable[1].table = table[1]

\* the same for a header of two or more columns and an empty line after the header
C25_BlankLinesAfterWideHeader ==
    (blankTable # NotParsed /\ input.meta.n >= 2 /\ blankTable[1].at >= 2)
        => blankTable[1].table = table[1]

\* an empty line between two Records of a two-column table was read
C25_WideWitness ==
    /\ blankTable # NotParsed
    /\ input.meta.n = 2
    /\ blankTable[1].at = 3
    /\ Len(blankTable[1].table.rows) = 2

----------------------------------------------------------------------------
(* Claims about the rows the compare viewer lists *)

\* sub is made of elements of seq, in the order they have in seq
RECURSIVE IsSubsequence(_, _)
IsSubsequence(sub, seq) ==
    IF sub = <<>> THEN TRUE
    ELSE IF seq = <<>> THEN FALSE
    ELSE IF Head(sub) = Head(seq) THEN IsSubsequence(Tail(sub), Tail(seq))
    ELSE IsSubsequence(sub, Tail(seq))

\* C26: in every reachable state filteredRows is a subsequence of mergedRows: the
\* dropdown lists merged rows of the current mergedRows only, in their order.
C26_FilteredWithinMerged == IsSubsequence(filteredRows, mergedRows)

\* the same while mergedRows is not empty
C26_FilteredWithinMergedRows == mergedRows # <<>> => IsSubsequence(filteredRows, mergedRows)

\* the Records of the file the user selected
UserRows == BaseRowsOf[baseRead[1].file]

\* the user selected a file while the fetch of input.csv was pending, and both the
\* read and the fetch have completed
BothCompleted ==
    /\ baseRead # Null
    /\ baseRead[1].whileAuto
    /\ baseRead[1].state = "done"
    /\ ~autoPending

\* C28: when the fetch of input.csv and the read of a user-selected base file were
\* pending together and both have completed, baseRows are the Records of the
\* user's file and mergedRows are made of them, whichever completed first.
C28_UserFileWins ==
    BothCompleted =>
        /\ baseRows = UserRows
        /\ \A i \in DOMAIN mergedRows : mergedRows[i].baseRow \in Range(UserRows)

\* the same when the read of the user's file is the one that completed last and
\* the merge runs on it, both tables having rows
C28_LastCompletedWins ==
    (BothCompleted /\ baseRead[1].last /\ UserRows # <<>> /\ summaryRows # <<>>) =>
        /\ baseRows = UserRows
        /\ \A i \in DOMAIN mergedRows : mergedRows[i].baseRow \in Range(UserRows)

\* both loads completed, the user's last, and a merge was made of the user's file
C28_LastCompletedWitness ==
    /\ BothCompleted
    /\ baseRead[1].last
    /\ "base" \in loaded
    /\ mergedRows # <<>>
    /\ \E f \in BaseFiles : BaseRowsOf[f] # UserRows
----------------------------------------------------------------------------
(* Claims about the items of lists *)

\* the number of <li> in an html
liCount(html) == Cardinality({p \in DOMAIN html : At(html, p, OpenTag(Li))})

\* the items Step 3 matched in the text set
MatchedItems == extractLists(replaceHeaders(escapeHtml(Text))).listPlaceholders

\* the lines of the text set that read as a placeholder
TokenLinesTyped ==
    {line \in Range(split(Text, LF)) : placeholderMatch(line) # NoMatch}

\* text occurs in html
Occurs(text, html) == \E p \in DOMAIN html : At(html, p, text)

\* C29: the html has as many <li> as Step 3 matched item lines, and a line of the
\* text that reads __LIST_ITEM_k__ is in the html as it was typed
C29_OnlyMarkedLinesAreItems ==
    rendered # NotParsed =>
        /\ liCount(Html) = Len(MatchedItems)
        /\ \A line \in TokenLinesTyped : Occurs(line, Html)

\* the count is right for a text none of whose lines reads as a placeholder and
\* whose lines end with \n alone
C29_ItemsCountedWithoutTokens ==
    (rendered # NotParsed /\ TokenLinesTyped = {} /\ CR \notin Range(Text)) =>
        liCount(Html) = Len(MatchedItems)

\* an item and a typed placeholder of its index: the item is rendered twice
C29_TypedTokenWitness ==
    /\ rendered # NotParsed
    /\ TokenLinesTyped # {}
    /\ liCount(Html) > Len(MatchedItems)

\* a list is rendered from a text without typed placeholders
C29_CountedWitness ==
    /\ rendered # NotParsed
    /\ TokenLinesTyped = {}
    /\ CR \notin Range(Text)
    /\ Len(MatchedItems) >= 2
----------------------------------------------------------------------------
(* Claims about the summary that is displayed *)

\* C30: for every cell text _extractSummaryText returns a string, and
\* _parseMarkdown of what it returned does not throw, the objects whose
\* document_summary is not a string included.
C30_DisplayNeverThrows ==
    unwrapped # NotParsed =>
        /\ Extracted.type = "string"
        /\ ~summaryHtml[1].threw

\* the same for the texts that are not an object with a truthy document_summary
\* that is no string: a string is returned and displayed
C30_StringSummaryDisplayed ==
    (/\ unwrapped # NotParsed
     /\ ~(/\ tryExtract(Summary).returned
          /\ tryExtract(Summary).value.type # "string")) =>
        /\ Extracted.type = "string"
        /\ summaryHtml[1] = [threw |-> FALSE, html |-> parseMarkdown(Extracted.str)]

\* an object whose document_summary is a number, displayed
C30_NumberSummaryWitness ==
    /\ unwrapped # NotParsed
    /\ summaryInput.kind = "object"
    /\ Extracted.type = "number"
    /\ summaryHtml[1].threw

\* an unwrapped string summary, displayed
C30_StringSummaryWitness ==
    /\ unwrapped # NotParsed
    /\ summaryInput.kind = "envelope"
    /\ Extracted.type = "string"
    /\ summaryHtml[1].html # <<>>

====
